---- MODULE Spec2Model ----
(***************************************************************************)
(* Document approval workflow of the QDMS backend (backend/server.py).     *)
(*                                                                         *)
(* The model follows one document of db.documents through the handlers     *)
(* create_document, add_document_version and                               *)
(* submit_document_approval_decision.  Strings that the code normalises    *)
(* (approver tokens, user identifiers) are sequences of one-character      *)
(* strings, so that strip() and lower() are computed, not assumed.         *)
(* The folder of the document is a legacy folder without permission        *)
(* entries: user_has_folder_capability grants every capability except      *)
(* "manage" to every user, so ensure_document_folder never refuses.        *)
(* Notifications, file_uploads and the folder's code counter are other     *)
(* collections and are not part of the state below.                        *)
(***************************************************************************)
EXTENDS Integers, Sequences, FiniteSets, TLC

VARIABLES document, response, ret, request, inflight, db

vars == <<document, response, ret, request, inflight, db>>

(***************************************************************************)
(* Bounds of the model.                                                    *)
(***************************************************************************)
MaxRevisions == 1
MaxStages == 3

(***************************************************************************)
(* Python values.                                                          *)
(***************************************************************************)
None == <<"None">>
Now == <<"now">>
NoDocument == [exists |-> FALSE]

Truthy(value) == value # None /\ value # <<>>

Range(seq) == {seq[i] : i \in DOMAIN seq}

(***************************************************************************)
(* str.lower() and str.strip() on sequences of characters.                 *)
(***************************************************************************)
UpperChars == <<"A", "B", "C", "D", "E", "G", "L", "O", "P", "Q", "R", "S", "U">>
LowerChars == <<"a", "b", "c", "d", "e", "g", "l", "o", "p", "q", "r", "s", "u">>
Whitespace == {" ", "\t", "\n"}

LowerChar(ch) ==
    IF \E i \in DOMAIN UpperChars : UpperChars[i] = ch
    THEN LowerChars[CHOOSE i \in DOMAIN UpperChars : UpperChars[i] = ch]
    ELSE ch

Lower(s) == [i \in DOMAIN s |-> LowerChar(s[i])]

RECURSIVE LStrip(_)
LStrip(s) ==
    IF s # <<>> /\ Head(s) \in Whitespace THEN LStrip(Tail(s)) ELSE s

RECURSIVE RStrip(_)
RStrip(s) ==
    IF s # <<>> /\ s[Len(s)] \in Whitespace
    THEN RStrip(SubSeq(s, 1, Len(s) - 1))
    ELSE s

Strip(s) == RStrip(LStrip(s))

StartsWith(s, prefix) ==
    /\ Len(s) >= Len(prefix)
    /\ SubSeq(s, 1, Len(prefix)) = prefix

\* value.split(":", 1)[1] if ":" in value else ""
strip_prefix(value) ==
    IF \E i \in DOMAIN value : value[i] = ":"
    THEN LET first == CHOOSE i \in DOMAIN value :
                          /\ value[i] = ":"
                          /\ \A j \in 1..(i - 1) : value[j] # ":"
         IN  SubSeq(value, first + 1, Len(value))
    ELSE <<>>

\* (value or "").strip().lower()
_normalize_token(value) ==
    Lower(Strip(IF Truthy(value) THEN value ELSE <<>>))

(***************************************************************************)
(* Users.                                                                  *)
(***************************************************************************)
ROLE_PREFIX == <<"r", "o", "l", "e", ":">>
DEPARTMENT_PREFIX == <<"d", "e", "p", "a", "r", "t", "m", "e", "n", "t", ":">>
GROUP_PREFIX == <<"g", "r", "o", "u", "p", ":">>
USER_PREFIX == <<"u", "s", "e", "r", ":">>

U1 == <<"u", "1">>
U2 == <<"u", "2">>
U3 == <<"u", "3">>

Users == {
    [id |-> U1, username |-> <<"e", "l", "a">>, email |-> <<"e", "@", "x">>,
     role |-> <<"Q", "A">>, department |-> <<"L", "a", "b">>,
     roles |-> <<>>, groups |-> <<<<"g", "1">>>>],
    [id |-> U2, username |-> <<"a", "l", "i">>, email |-> <<"a", "@", "x">>,
     role |-> <<"p", "m">>, department |-> <<"O", "p", "s">>,
     roles |-> <<<<"q", "a">>>>, groups |-> <<>>],
    [id |-> U3, username |-> <<"c", "a", "n">>, email |-> <<"c", "@", "x">>,
     role |-> <<"o", "p">>, department |-> <<"l", "a", "b">>,
     roles |-> <<>>, groups |-> <<<<"g", "1">>>>]
}

_collect_role_names(user) ==
    (IF Truthy(user.role) THEN {user.role} ELSE {})
        \cup {name \in Range(user.roles) : Truthy(name)}

\* The identifier tokens without the group names.
_user_identifier_tokens_without_groups(user) ==
    LET tokens ==
            {_normalize_token(user.id), _normalize_token(user.username),
             _normalize_token(user.role)}
            \cup (IF Truthy(user.email) THEN {_normalize_token(user.email)} ELSE {})
            \cup {_normalize_token(role) : role \in Range(user.roles)}
            \cup (IF Truthy(user.department)
                  THEN {_normalize_token(user.department)} ELSE {})
    IN  {token \in tokens : token # <<>>}

_user_identifier_tokens(user) ==
    LET tokens ==
            {_normalize_token(user.id), _normalize_token(user.username),
             _normalize_token(user.role)}
            \cup (IF Truthy(user.email) THEN {_normalize_token(user.email)} ELSE {})
            \cup {_normalize_token(role) : role \in Range(user.roles)}
            \cup (IF Truthy(user.department)
                  THEN {_normalize_token(user.department)} ELSE {})
            \cup {_normalize_token(group) : group \in Range(user.groups)}
    IN  {token \in tokens : token # <<>>}

user_matches_approver(user, approver_token) ==
    LET token == _normalize_token(approver_token) IN
    IF token = <<>> THEN FALSE
    ELSE IF StartsWith(token, ROLE_PREFIX)
    THEN \E role \in _collect_role_names(user) :
            _normalize_token(role) = strip_prefix(token)
    ELSE IF StartsWith(token, DEPARTMENT_PREFIX)
    THEN _normalize_token(user.department) = strip_prefix(token)
    ELSE IF StartsWith(token, GROUP_PREFIX)
    THEN \E group \in Range(user.groups) :
            _normalize_token(group) = strip_prefix(token)
    ELSE IF StartsWith(token, USER_PREFIX)
    THEN strip_prefix(token) \in _user_identifier_tokens(user)
    ELSE token \in _user_identifier_tokens(user)

(***************************************************************************)
(* Approval stages (DocumentApprovalStage, StageDecision).                 *)
(***************************************************************************)
\* find_pending_stage_index returns None when no stage is pending; indices
\* of the model are 1-based, so 0 stands for None.
NoIndex == 0

StageDecision(user_id, decision, comment, matched_token) ==
    [user_id |-> user_id, decision |-> decision, comment |-> comment,
     decided_at |-> Now, matched_token |-> matched_token]

DocumentApprovalStage(stage, approvers, approval_type, deadline, status, decided_by, decided_at, comment, decisions) ==
    [stage |-> stage, approvers |-> approvers, approval_type |-> approval_type,
     deadline |-> deadline, status |-> status, decided_by |-> decided_by,
     decided_at |-> decided_at, comment |-> comment, decisions |-> decisions]

\* A stage as a client usually sends it: only stage, approvers, approval_type.
NewStage(stage, approvers, approval_type) ==
    DocumentApprovalStage(stage, approvers, approval_type, None, "pending",
                          None, None, None, <<>>)

\* list.sort(key=...) is stable: insert after the last entry with a key
\* that is not greater.
RECURSIVE SortByStage(_)
SortByStage(stages) ==
    IF stages = <<>> THEN <<>>
    ELSE LET sorted == SortByStage(SubSeq(stages, 1, Len(stages) - 1))
             last == stages[Len(stages)]
             keep == Cardinality({i \in DOMAIN sorted :
                                     sorted[i].stage <= last.stage})
         IN  SubSeq(sorted, 1, keep) \o <<last>>
                 \o SubSeq(sorted, keep + 1, Len(sorted))

normalize_approval_stages(stages) ==
    LET TruthyToken(token) == Truthy(token)
        clean(stage) ==
            [stage EXCEPT !.approvers = SelectSeq(stage.approvers, TruthyToken)]
    IN  SortByStage([i \in DOMAIN stages |-> clean(stages[i])])

\* A reset of the status only: decisions and decided_* survive.
reset_approval_stages_status_only(stages) ==
    [i \in DOMAIN stages |-> [stages[i] EXCEPT !.status = "pending"]]

reset_approval_stages(stages) ==
    [i \in DOMAIN stages |->
        DocumentApprovalStage(stages[i].stage, stages[i].approvers,
                              stages[i].approval_type, stages[i].deadline,
                              "pending", None, None, None, <<>>)]

\* The loop with <= in place of <: the last of equal stage numbers wins.
RECURSIVE find_pending_loop_last(_, _, _, _)
find_pending_loop_last(matrix, idx, pending_index, pending_stage_value) ==
    IF idx > Len(matrix) THEN pending_index
    ELSE IF matrix[idx].status # "pending"
    THEN find_pending_loop_last(matrix, idx + 1, pending_index, pending_stage_value)
    ELSE IF pending_index = NoIndex \/ matrix[idx].stage <= pending_stage_value
    THEN find_pending_loop_last(matrix, idx + 1, idx, matrix[idx].stage)
    ELSE find_pending_loop_last(matrix, idx + 1, pending_index, pending_stage_value)

\* The loop of find_pending_stage_index from position idx on;
\* pending_index = NoIndex means pending_stage_value is None.
RECURSIVE find_pending_loop(_, _, _, _)
find_pending_loop(matrix, idx, pending_index, pending_stage_value) ==
    IF idx > Len(matrix) THEN pending_index
    ELSE IF matrix[idx].status # "pending"
    THEN find_pending_loop(matrix, idx + 1, pending_index, pending_stage_value)
    ELSE IF pending_index = NoIndex \/ matrix[idx].stage < pending_stage_value
    THEN find_pending_loop(matrix, idx + 1, idx, matrix[idx].stage)
    ELSE find_pending_loop(matrix, idx + 1, pending_index, pending_stage_value)

find_pending_stage_index(matrix) ==
    find_pending_loop(matrix, 1, NoIndex, 0)

\* Completion on any overlap of required and approved tokens.
approval_stage_is_complete_overlap(stage) ==
    IF stage.status = "approved" THEN TRUE
    ELSE IF stage.approval_type = "any"
    THEN \E i \in DOMAIN stage.decisions : stage.decisions[i].decision = "approved"
    ELSE \E token \in Range(stage.approvers) :
            \E i \in DOMAIN stage.decisions :
                /\ stage.decisions[i].decision = "approved"
                /\ _normalize_token(stage.decisions[i].matched_token)
                       = _normalize_token(token)

approval_stage_is_complete(stage) ==
    IF stage.status = "approved" THEN TRUE
    ELSE IF stage.approval_type = "any"
    THEN \E i \in DOMAIN stage.decisions : stage.decisions[i].decision = "approved"
    ELSE IF stage.approvers = <<>> THEN FALSE
    ELSE LET approved_tokens ==
                 {_normalize_token(IF Truthy(stage.decisions[i].matched_token)
                                   THEN stage.decisions[i].matched_token
                                   ELSE stage.decisions[i].user_id) :
                     i \in {j \in DOMAIN stage.decisions :
                               stage.decisions[j].decision = "approved"}}
             required_tokens ==
                 {_normalize_token(token) :
                     token \in {t \in Range(stage.approvers) : Truthy(t)}}
         IN  required_tokens \subseteq approved_tokens

\* The first approver token of the stage, whoever asks.
resolve_matching_token_first(user, stage) ==
    IF stage.approvers # <<>> THEN stage.approvers[1] ELSE None

\* The first approver token of the stage that the user matches, or None.
resolve_matching_token(user, stage) ==
    IF \E i \in DOMAIN stage.approvers :
           user_matches_approver(user, stage.approvers[i])
    THEN stage.approvers[CHOOSE i \in DOMAIN stage.approvers :
             /\ user_matches_approver(user, stage.approvers[i])
             /\ \A j \in 1..(i - 1) :
                    ~user_matches_approver(user, stage.approvers[j])]
    ELSE None

build_initial_read_receipts(distribution) ==
    LET IsUser(item) == item.principal_type = "user"
        users == SelectSeq(distribution, IsUser)
    IN  [i \in DOMAIN users |->
            [user_id |-> users[i].principal_id,
             required |-> users[i].required_to_read,
             status |-> "pending", read_at |-> None, note |-> None]]

\* Version labels "major.minor" are kept as the pair the code parses them to.
determine_next_version(version_history, mark_as_published) ==
    IF version_history = <<>> THEN [major |-> 1, minor |-> 0]
    ELSE LET latest == version_history[Len(version_history)].version
         IN  IF mark_as_published
             THEN [major |-> latest.major + 1, minor |-> 0]
             ELSE [major |-> latest.major, minor |-> latest.minor + 1]

(***************************************************************************)
(* Request payloads.                                                       *)
(***************************************************************************)
T_ROLE_QA == ROLE_PREFIX \o <<"Q", "A">>
T_DEPT_LAB == DEPARTMENT_PREFIX \o <<"l", "a", "b">>
T_USER_U2 == USER_PREFIX \o U2
T_U1 == U1
T_U3 == <<" ", "U", "3">>
T_BLANK == <<" ">>
DEADLINE == <<"2", "0", "3", "0">>

COMMENT == <<"o", "k">>

\* approval_matrix of DocumentCreate: any list of DocumentApprovalStage,
\* in any order, with any status and prior decisions.
ApprovalMatrixPayloads == {
    <<>>,
    <<NewStage(1, <<T_ROLE_QA>>, "any")>>,
    <<[NewStage(2, <<<<>>, T_USER_U2>>, "any") EXCEPT !.deadline = DEADLINE],
      NewStage(1, <<T_ROLE_QA, T_DEPT_LAB>>, "all")>>,
    <<NewStage(1, <<T_U3, T_DEPT_LAB>>, "any"), NewStage(1, <<T_U1>>, "all")>>,
    <<[NewStage(1, <<T_U1, T_USER_U2>>, "all") EXCEPT
          !.decisions = <<StageDecision(U1, "approved", None, None)>>]>>,
    <<DocumentApprovalStage(2, <<T_USER_U2>>, "any", None, "rejected", U2, Now,
                            None, <<StageDecision(U2, "rejected", None, T_USER_U2)>>),
      NewStage(3, <<T_U1>>, "any")>>,
    <<DocumentApprovalStage(1, <<T_U1>>, "all", None, "approved", U1, Now,
                            None, <<>>)>>,
    <<NewStage(1, <<T_BLANK>>, "all")>>
}

DistributionPayloads == {
    <<[principal_type |-> "user", principal_id |-> U1, required_to_read |-> TRUE],
      [principal_type |-> "role", principal_id |-> <<"q", "a">>,
       required_to_read |-> TRUE],
      [principal_type |-> "user", principal_id |-> U3, required_to_read |-> FALSE]>>
}

\* The users who create and revise documents in the model.
Authors == {user \in Users : user.id = U3}

DocumentCreatePayloads ==
    [distribution_list : DistributionPayloads,
     approval_matrix : ApprovalMatrixPayloads]

\* DocumentVersionCreate; the model revises without mark_as_published.
DocumentVersionCreatePayloads == [mark_as_published : {FALSE}]

\* DocumentApprovalDecision: stage is any int, decision approved|rejected.
DocumentApprovalDecisionPayloads == {
    [stage |-> 1, decision |-> "approved", comment |-> COMMENT],
    [stage |-> 3, decision |-> "approved", comment |-> COMMENT],
    [stage |-> 1, decision |-> "rejected", comment |-> None],
    [stage |-> 3, decision |-> "rejected", comment |-> None]
}

(***************************************************************************)
(* State.                                                                  *)
(*   document  the stored document (db.documents), NoDocument before       *)
(*             create_document                                             *)
(*   response  HTTP status of the last request                             *)
(*   ret       result of the last direct call of a pure function           *)
(*   request   the last request (operation and user), where a              *)
(*             specification logs it; the arguments of a direct call       *)
(*   inflight  the requests that have read the document and not yet        *)
(*             answered, where a specification interleaves requests        *)
(*   db        the other collections: calibration_work_orders, dof_tasks,  *)
(*             folders, and the codes given to the documents of a folder   *)
(***************************************************************************)
NoRecord == [exists |-> FALSE]
EmptyDb ==
    [calibration_work_orders |-> NoRecord,
     dof_tasks |-> NoRecord,
     folders |-> NoRecord,
     document_codes |-> <<>>]

NoCall == [called |-> FALSE]
NoRequest == [op |-> "none"]
Slots == {"a", "b"}
Idle == [pc |-> "idle"]

Init ==
    /\ document = NoDocument
    /\ response = 200
    /\ ret = NoCall
    /\ request = NoRequest
    /\ inflight = [slot \in Slots |-> Idle]
    /\ db = EmptyDb

DocumentStatus(status, changed_by) ==
    [status |-> status, changed_by |-> changed_by]

\* uuid4 ids of versions are fresh; the position in version_history is used.
DocumentVersion(version_history, version, created_by, status) ==
    [id |-> Len(version_history) + 1, version |-> version,
     created_by |-> created_by, status |-> status]

\* The first entry is updated, whichever version is current.
set_first_version_status(version_history, current_version_id, status) ==
    IF version_history = <<>> THEN version_history
    ELSE [version_history EXCEPT ![1].status = status]

\* for version in version_history: if version.id == current_version_id: ...; break
set_current_version_status(version_history, current_version_id, status) ==
    IF \E i \in DOMAIN version_history : version_history[i].id = current_version_id
    THEN LET first == CHOOSE i \in DOMAIN version_history :
                 /\ version_history[i].id = current_version_id
                 /\ \A j \in 1..(i - 1) : version_history[j].id # current_version_id
         IN  [version_history EXCEPT ![first].status = status]
    ELSE version_history

\* initial_status = "review" if approval_matrix else "approved"
initial_status_for(approval_matrix) ==
    IF approval_matrix # <<>> THEN "review" ELSE "approved"

\* Every new version waits for approval.
version_status_always_pending(approval_matrix) == "pending_approval"

\* status="pending_approval" if approval_matrix else "published"
version_status_for(approval_matrix) ==
    IF approval_matrix # <<>> THEN "pending_approval" ELSE "published"

\* A new version always opens a review.
new_status_always_review(approval_matrix) == "review"

\* new_status = "review" if hydrated_document.approval_matrix else "approved"
new_status_for(approval_matrix) ==
    IF approval_matrix # <<>> THEN "review" ELSE "approved"

(***************************************************************************)
(* POST /documents                                                         *)
(***************************************************************************)
create_document(current_user, payload) ==
    /\ ~document.exists
    /\ LET distribution == payload.distribution_list
           approval_matrix == normalize_approval_stages(payload.approval_matrix)
           initial_status == initial_status_for(approval_matrix)
           version_record ==
               DocumentVersion(<<>>, [major |-> 1, minor |-> 0], current_user.id,
                               version_status_for(approval_matrix))
           status_history ==
               <<DocumentStatus("draft", current_user.id)>>
                   \o (IF initial_status # "draft"
                       THEN <<DocumentStatus(initial_status, current_user.id)>>
                       ELSE <<>>)
       IN  document' =
               [exists |-> TRUE,
                status |-> initial_status,
                author_id |-> current_user.id,
                version |-> version_record.version,
                distribution_list |-> distribution,
                approval_matrix |-> approval_matrix,
                read_receipts |-> build_initial_read_receipts(distribution),
                status_history |-> status_history,
                version_history |-> <<version_record>>,
                current_version_id |-> version_record.id,
                published_at |-> IF initial_status = "approved" THEN Now ELSE None]
    /\ response' = 200
    /\ UNCHANGED ret

(***************************************************************************)
(* POST /documents/{document_id}/versions                                  *)
(***************************************************************************)
add_document_version(current_user, payload) ==
    /\ UNCHANGED ret
    /\ IF ~document.exists
       THEN response' = 404 /\ UNCHANGED document
       ELSE
       /\ Len(document.version_history) <= MaxRevisions
       /\ LET has_matrix == document.approval_matrix # <<>>
              version_record ==
                  DocumentVersion(document.version_history,
                                  determine_next_version(document.version_history,
                                                         payload.mark_as_published),
                                  current_user.id,
                                  version_status_for(document.approval_matrix))
              new_status == new_status_for(document.approval_matrix)
          IN  document' =
                  [document EXCEPT
                      !.current_version_id = version_record.id,
                      !.status = new_status,
                      !.version = version_record.version,
                      !.published_at =
                          IF new_status = "approved" THEN Now ELSE @,
                      !.approval_matrix =
                          IF has_matrix THEN reset_approval_stages(@) ELSE @,
                      !.version_history = Append(@, version_record),
                      !.status_history =
                          Append(@, DocumentStatus(new_status, current_user.id))]
       /\ response' = 200

(***************************************************************************)
(* POST /documents/{document_id}/approvals/decision                        *)
(***************************************************************************)
\* The write of one stage that also resets every other stage.
replace_stage_reset_others(matrix, stage_index, stage) ==
    [j \in DOMAIN matrix |->
        IF j = stage_index THEN stage ELSE reset_approval_stages(matrix)[j]]

\* stage = document.approval_matrix[stage_index] is changed in place and the
\* whole matrix is written back.
replace_stage(matrix, stage_index, stage) ==
    [matrix EXCEPT ![stage_index] = stage]

\* stage.status = ...; stage.decided_by, decided_at, comment
decide_stage(stage, status, current_user, payload) ==
    [stage EXCEPT !.status = status,
                  !.decided_by = current_user.id,
                  !.decided_at = Now,
                  !.comment = payload.comment]

\* Every stage is held to the `all` policy.
stage_completes_all_policy(stage) ==
    approval_stage_is_complete([stage EXCEPT !.approval_type = "all"])

\* if stage.approval_type == "any" or approval_stage_is_complete(stage)
stage_completes(stage) ==
    stage.approval_type = "any" \/ approval_stage_is_complete(stage)

\* The completed stage approves the document without a look at the others.
status_after_approval_unchecked(matrix) == "approved"

\* remaining_pending = any(s.status == "pending" ...); document.status = ...
status_after_approval(matrix) ==
    IF \E i \in DOMAIN matrix : matrix[i].status = "pending"
    THEN "review" ELSE "approved"

\* The update the handler builds from the document it read (set_payload and
\* the $push of status_history): stage_index is the actionable stage and
\* matching_token the token the user was matched with.
decision_update(doc, current_user, payload, stage_index, matching_token) ==
    LET matrix == doc.approval_matrix
        decision_entry ==
            StageDecision(current_user.id, payload.decision, payload.comment,
                          matching_token)
        stage ==
            [matrix[stage_index] EXCEPT !.decisions = Append(@, decision_entry)]
    IN  IF payload.decision = "rejected"
        THEN [approval_matrix |->
                  replace_stage(matrix, stage_index,
                      decide_stage(stage, "rejected", current_user, payload)),
              status |-> "draft",
              sets_version_history |-> TRUE,
              version_history |->
                  set_current_version_status(doc.version_history,
                                             doc.current_version_id, "draft"),
              sets_published_at |-> FALSE,
              push_status_history |-> <<DocumentStatus("draft", current_user.id)>>]
        ELSE IF stage_completes(stage)
        THEN LET new_matrix ==
                     replace_stage(matrix, stage_index,
                         decide_stage(stage, "approved", current_user, payload))
                 new_status == status_after_approval(new_matrix)
             IN  [approval_matrix |-> new_matrix,
                  status |-> new_status,
                  sets_version_history |-> new_status = "approved",
                  version_history |->
                      set_current_version_status(doc.version_history,
                                                 doc.current_version_id,
                                                 "published"),
                  sets_published_at |-> new_status = "approved",
                  push_status_history |->
                      <<DocumentStatus(new_status, current_user.id)>>]
        ELSE [approval_matrix |-> replace_stage(matrix, stage_index, stage),
              status |-> doc.status,
              sets_version_history |-> FALSE,
              version_history |-> doc.version_history,
              sets_published_at |-> FALSE,
              push_status_history |-> <<>>]

\* An update that adds its decisions to the decisions stored meanwhile.
apply_decision_update_merging(stored, update) ==
    [stored EXCEPT
        !.approval_matrix =
            [i \in DOMAIN update.approval_matrix |->
                [update.approval_matrix[i] EXCEPT !.decisions =
                    LET kept == stored.approval_matrix[i].decisions
                        IsNew(decision) == decision \notin Range(kept)
                    IN  kept \o SelectSeq(@, IsNew)]],
        !.status = update.status,
        !.version_history =
            IF update.sets_version_history THEN update.version_history ELSE @,
        !.published_at = IF update.sets_published_at THEN Now ELSE @,
        !.status_history = @ \o update.push_status_history]

\* db.documents.update_one({"id": document_id}, {"$set": ..., "$push": ...})
apply_decision_update(stored, update) ==
    [stored EXCEPT
        !.approval_matrix = update.approval_matrix,
        !.status = update.status,
        !.version_history =
            IF update.sets_version_history THEN update.version_history ELSE @,
        !.published_at = IF update.sets_published_at THEN Now ELSE @,
        !.status_history = @ \o update.push_status_history]

record_decision(current_user, payload, stage_index, matching_token) ==
    document' =
        apply_decision_update(document,
            decision_update(document, current_user, payload, stage_index,
                            matching_token))

\* The stage the request names is taken when it is pending.
actionable_stage_index_requested(matrix, payload) ==
    IF \E i \in DOMAIN matrix :
           matrix[i].stage = payload.stage /\ matrix[i].status = "pending"
    THEN CHOOSE i \in DOMAIN matrix :
             matrix[i].stage = payload.stage /\ matrix[i].status = "pending"
    ELSE find_pending_stage_index(matrix)

\* The first stage of the matrix is taken when no stage is pending.
actionable_stage_index_or_first(matrix, payload) ==
    IF find_pending_stage_index(matrix) = NoIndex
    THEN 1
    ELSE find_pending_stage_index(matrix)

\* stage_index = find_pending_stage_index(document); payload.stage is not read.
actionable_stage_index(matrix, payload) ==
    find_pending_stage_index(matrix)

\* No check for an earlier decision of the user.
already_decided_never(stage, current_user) == FALSE

\* if any(dec.user_id == current_user.id for dec in stage.decisions)
already_decided(stage, current_user) ==
    \E i \in DOMAIN stage.decisions : stage.decisions[i].user_id = current_user.id

\* The status the handler answers with, decided on the document it read.
decision_response(doc, current_user, payload) ==
    IF ~doc.exists THEN 404
    ELSE IF doc.approval_matrix = <<>> THEN 400
    ELSE LET stage_index == actionable_stage_index(doc.approval_matrix, payload) IN
         IF stage_index = NoIndex THEN 400
         ELSE LET stage == doc.approval_matrix[stage_index] IN
              IF ~Truthy(resolve_matching_token(current_user, stage)) THEN 403
              ELSE IF already_decided(stage, current_user) THEN 400
              ELSE 200

submit_document_approval_decision(current_user, payload) ==
    /\ UNCHANGED ret
    /\ response' = decision_response(document, current_user, payload)
    /\ IF response' = 200
       THEN LET stage_index ==
                    actionable_stage_index(document.approval_matrix, payload)
                stage == document.approval_matrix[stage_index]
            IN  record_decision(current_user, payload, stage_index,
                                resolve_matching_token(current_user, stage))
       ELSE UNCHANGED document

Next ==
    \/ \E user \in Authors, payload \in DocumentCreatePayloads :
           create_document(user, payload) /\ UNCHANGED <<request, inflight, db>>
    \/ \E user \in Authors, payload \in DocumentVersionCreatePayloads :
           add_document_version(user, payload) /\ UNCHANGED <<request, inflight, db>>
    \/ \E user \in Users, payload \in DocumentApprovalDecisionPayloads :
           /\ submit_document_approval_decision(user, payload)
           /\ UNCHANGED <<request, inflight, db>>

Spec == Init /\ [][Next]_vars

(***************************************************************************)
(* find_pending_stage_index called directly on an arbitrary matrix: the    *)
(* stages come in any order, with repeated stage numbers and any status.   *)
(***************************************************************************)
StageNumbers == {0, 1, 2}
StageStatuses == {"pending", "approved", "rejected"}

ArbitraryStages ==
    {[NewStage(n, <<T_U1>>, "any") EXCEPT !.status = st] :
        n \in StageNumbers, st \in StageStatuses}

ArbitraryMatrices == UNION {[1..n -> ArbitraryStages] : n \in 0..MaxStages}

InitFind ==
    /\ \E matrix \in ArbitraryMatrices :
           document = [exists |-> TRUE,
                       status |-> "review",
                       author_id |-> U3,
                       version |-> [major |-> 1, minor |-> 0],
                       distribution_list |-> <<>>,
                       approval_matrix |-> matrix,
                       read_receipts |-> <<>>,
                       status_history |-> <<DocumentStatus("review", U3)>>,
                       version_history |->
                           <<DocumentVersion(<<>>, [major |-> 1, minor |-> 0], U3,
                                             "pending_approval")>>,
                       current_version_id |-> 1,
                       published_at |-> None]
    /\ response = 200
    /\ ret = NoCall
    /\ request = NoRequest
    /\ inflight = [slot \in Slots |-> Idle]
    /\ db = EmptyDb

call_find_pending_stage_index ==
    /\ ~ret.called
    /\ ret' = [called |-> TRUE,
               value |-> find_pending_stage_index(document.approval_matrix)]
    /\ UNCHANGED <<document, response, request, inflight, db>>

NextFind == call_find_pending_stage_index

SpecFind == InitFind /\ [][NextFind]_vars

(***************************************************************************)
(* Requests with their user on record: create_document and                 *)
(* submit_document_approval_decision, each step noting in request the      *)
(* operation, the authenticated user and the payload it was called with.   *)
(***************************************************************************)
NextReq ==
    \/ \E user \in Authors, payload \in DocumentCreatePayloads :
           /\ create_document(user, payload)
           /\ request' = [op |-> "create_document", user |-> user]
           /\ UNCHANGED <<inflight, db>>
    \/ \E user \in Users, payload \in DocumentApprovalDecisionPayloads :
           /\ submit_document_approval_decision(user, payload)
           /\ request' = [op |-> "submit_document_approval_decision",
                          user |-> user, payload |-> payload]
           /\ UNCHANGED <<inflight, db>>

SpecReq == Init /\ [][NextReq]_vars

(***************************************************************************)
(* user_matches_approver called on its own: request holds the user and the *)
(* approver token of the call, ret its result.                             *)
(***************************************************************************)
\* A user whose stored fields carry capitals and surrounding whitespace.
U4 == <<"U", "4">>

MatchUsers ==
    Users \cup {
        [id |-> U4, username |-> <<"B", "e", "a">>, email |-> <<"b", "@", "x">>,
         role |-> <<" ", "Q", "A", " ">>, department |-> <<"L", "A", "B", " ">>,
         roles |-> <<<<" ", "P", "m">>>>, groups |-> <<<<"G", "1", " ">>>>]}

\* role:<name> tokens; the names are roles, other fields of a user and
\* values of no user, also written "role: qa" and " ROLE:qa ".
RoleTokens ==
    {ROLE_PREFIX \o value : value \in {
        <<"Q", "A">>,
        <<"q", "a">>,
        <<" ", "q", "a">>,
        <<"p", "m">>,
        <<"o", "p">>,
        <<>>,
        <<"u", "2">>,
        <<"a", "l", "i">>,
        <<"l", "a", "b">>,
        <<"g", "1">>,
        <<"a", "@", "x">>}}
        \cup {<<" ", "R", "O", "L", "E", ":", "q", "a", " ">>}

\* user:<id> tokens; the ids are ids, usernames, emails, roles, departments
\* and groups of users, and values of no user.
UserTokens ==
    {USER_PREFIX \o value : value \in {
        <<"u", "2">>,
        <<"U", "2", " ">>,
        <<" ", "u", "1">>,
        <<"q", "a">>,
        <<"p", "m">>,
        <<"l", "a", "b">>,
        <<"g", "1">>,
        <<"e", "l", "a">>,
        <<"E", "@", "x">>,
        <<"z", "z">>,
        <<>>}}

\* Tokens without a prefix.
BareTokens == {
    <<"u", "3">>,
    <<" ", "U", "3">>,
    <<"q", "a">>,
    <<"Q", "A", " ">>,
    <<"p", "m">>,
    <<"l", "a", "b">>,
    <<"g", "1">>,
    <<"e", "l", "a">>,
    <<"c", "@", "x">>,
    <<"z", "z">>,
    T_BLANK}

MatchTokens ==
    RoleTokens \cup UserTokens \cup BareTokens
        \cup {T_DEPT_LAB, DEPARTMENT_PREFIX \o <<" ", "L", "a", "b">>,
               GROUP_PREFIX \o <<"g", "1">>, GROUP_PREFIX \o <<" ", "G", "1">>}

InitMatch ==
    /\ \E user \in MatchUsers, approver_token \in MatchTokens :
           request = [op |-> "user_matches_approver", user |-> user,
                      approver_token |-> approver_token]
    /\ document = NoDocument
    /\ response = 200
    /\ ret = NoCall
    /\ inflight = [slot \in Slots |-> Idle]
    /\ db = EmptyDb

call_user_matches_approver ==
    /\ ~ret.called
    /\ ret' = [called |-> TRUE,
               value |-> user_matches_approver(request.user,
                                               request.approver_token)]
    /\ UNCHANGED <<document, response, request, inflight, db>>

NextMatch == call_user_matches_approver

SpecMatch == InitMatch /\ [][NextMatch]_vars

(***************************************************************************)
(* Interleaved decision submissions.  The handler awaits find_one, then    *)
(* works on the document it read and awaits update_one; other requests run *)
(* between the two.  Each slot of inflight is one running request holding  *)
(* the document it read.  request counts the requests started.             *)
(***************************************************************************)
MaxRequests == 3

\* payload.stage is not read by the handler; the requests name stage 1.
RaceDecisionPayloads ==
    {payload \in DocumentApprovalDecisionPayloads : payload.stage = 1}

InitRace ==
    /\ document = NoDocument
    /\ response = 200
    /\ ret = NoCall
    /\ request = [op |-> "none", started |-> 0]
    /\ inflight = [slot \in Slots |-> Idle]
    /\ db = EmptyDb

\* document_raw = await db.documents.find_one({"id": document_id})
race_read(slot, current_user, payload) ==
    /\ inflight[slot].pc # "read"
    /\ request.started < MaxRequests
    /\ request' = [op |-> "submit_document_approval_decision",
                   started |-> request.started + 1]
    /\ inflight' = [inflight EXCEPT ![slot] =
                        [pc |-> "read", current_user |-> current_user,
                         payload |-> payload, document_raw |-> document]]
    /\ UNCHANGED <<document, response, ret, db>>

\* The checks and the update built on document_raw, then
\* await db.documents.update_one(...) on the stored document.
race_write(slot) ==
    /\ inflight[slot].pc = "read"
    /\ LET current_user == inflight[slot].current_user
           payload == inflight[slot].payload
           document_raw == inflight[slot].document_raw
           code == decision_response(document_raw, current_user, payload)
       IN  /\ response' = code
           /\ inflight' = [inflight EXCEPT ![slot] =
                               [pc |-> "done", current_user |-> current_user,
                                payload |-> payload, response |-> code]]
           /\ IF code = 200
              THEN LET stage_index ==
                           actionable_stage_index(document_raw.approval_matrix,
                                                  payload)
                       stage == document_raw.approval_matrix[stage_index]
                   IN  document' =
                           apply_decision_update(document,
                               decision_update(document_raw, current_user,
                                   payload, stage_index,
                                   resolve_matching_token(current_user, stage)))
              ELSE UNCHANGED document
    /\ UNCHANGED <<ret, request, db>>

NextRace ==
    \/ \E user \in Authors, payload \in DocumentCreatePayloads :
           create_document(user, payload) /\ UNCHANGED <<request, inflight, db>>
    \/ \E slot \in Slots, user \in Users, payload \in RaceDecisionPayloads :
           race_read(slot, user, payload)
    \/ \E slot \in Slots : race_write(slot)

SpecRace == InitRace /\ [][NextRace]_vars

(***************************************************************************)
(* Read receipts: create_document and acknowledge_document_read.           *)
(***************************************************************************)
ADMIN_ROLE_KEYS == {
    <<"a", "d", "m", "i", "n">>,
    <<"s", "y", "s", "t", "e", "m", "_", "a", "d", "m", "i", "n">>,
    <<"s", "y", "s", "t", "e", "m", "a", "d", "m", "i", "n", "i", "s", "t", "r", "a", "t", "o", "r">>}

\* role_name.lower() in ADMIN_ROLE_KEYS
_is_admin_role(role_name) ==
    Truthy(role_name) /\ Lower(role_name) \in ADMIN_ROLE_KEYS

user_is_admin(user) ==
    \/ _is_admin_role(user.role)
    \/ \E role \in Range(user.roles) : _is_admin_role(role)

\* An administrator, named by no entry of a distribution list.
U5 == <<"u", "5">>

AckUsers ==
    Users \cup {
        [id |-> U5, username |-> <<"d", "e", "b">>, email |-> <<"d", "@", "x">>,
         role |-> <<"A", "d", "m", "i", "n">>, department |-> <<"O", "p", "s">>,
         roles |-> <<>>, groups |-> <<>>]}

\* DocumentReadAcknowledge
DocumentReadAcknowledgePayloads ==
    [user_id : {None, U1, U2}, note : {None, COMMENT}]

DocumentReadReceipt(user_id, required, status, read_at, note) ==
    [user_id |-> user_id, required |-> required, status |-> status,
     read_at |-> read_at, note |-> note]

\* Every receipt is marked read.
mark_every_receipt_read(receipts, user_id, note) ==
    [i \in DOMAIN receipts |->
        [receipts[i] EXCEPT !.status = "read", !.read_at = Now, !.note = note]]

\* The first receipt of the user is marked read, or a read receipt is added.
mark_receipt_read(receipts, user_id, note) ==
    IF \E i \in DOMAIN receipts : receipts[i].user_id = user_id
    THEN LET first == CHOOSE i \in DOMAIN receipts :
                          /\ receipts[i].user_id = user_id
                          /\ \A j \in 1..(i - 1) : receipts[j].user_id # user_id
         IN  [receipts EXCEPT ![first] =
                 [@ EXCEPT !.status = "read", !.read_at = Now, !.note = note]]
    ELSE Append(receipts, DocumentReadReceipt(user_id, TRUE, "read", Now, note))

acknowledge_document_read(current_user, payload) ==
    /\ UNCHANGED ret
    /\ IF ~document.exists
       THEN response' = 404 /\ UNCHANGED document
       ELSE LET requested ==
                    IF user_is_admin(current_user)
                    THEN payload.user_id ELSE current_user.id
                user_id == IF Truthy(requested) THEN requested ELSE current_user.id
            IN  /\ response' = 200
                /\ document' =
                       [document EXCEPT !.read_receipts =
                            mark_receipt_read(@, user_id, payload.note)]

NextAck ==
    \/ \E user \in Authors, payload \in DocumentCreatePayloads :
           create_document(user, payload) /\ UNCHANGED <<request, inflight, db>>
    \/ \E user \in AckUsers, payload \in DocumentReadAcknowledgePayloads :
           /\ acknowledge_document_read(user, payload)
           /\ UNCHANGED <<request, inflight, db>>

SpecAck == Init /\ [][NextAck]_vars

(***************************************************************************)
(* PATCH /documents/{document_id}                                          *)
(***************************************************************************)
\* DocumentUpdate: update_fields names the fields the request gives
\* (payload.dict(exclude_none=True)); status is not a field of the model.
DocumentUpdatePayloads ==
    {payload \in
         [update_fields : SUBSET {"distribution_list", "approval_matrix"},
          distribution_list : {<<>>} \cup DistributionPayloads,
          approval_matrix : {<<>>, <<NewStage(1, <<T_ROLE_QA>>, "any")>>}] :
        /\ "distribution_list" \notin payload.update_fields
               => payload.distribution_list = <<>>
        /\ "approval_matrix" \notin payload.update_fields
               => payload.approval_matrix = <<>>}

\* update_fields = payload.dict(exclude_none=True) turns the entries of the
\* two lists into dicts; item.dict() and stage.dict() in the comprehensions
\* over update_fields[...] then raise AttributeError on the first entry.
entry_dict_raises(entries) == entries # <<>>

\* The status code of the request on a stored document.
update_response(payload) ==
    IF \/ /\ "distribution_list" \in payload.update_fields
          /\ entry_dict_raises(payload.distribution_list)
       \/ /\ "approval_matrix" \in payload.update_fields
          /\ entry_dict_raises(payload.approval_matrix)
    THEN 500 ELSE 200

update_document(current_user, payload) ==
    /\ UNCHANGED ret
    /\ IF ~document.exists
       THEN response' = 404 /\ UNCHANGED document
       ELSE /\ response' = update_response(payload)
            /\ IF update_response(payload) # 200
               THEN UNCHANGED document
               ELSE document' =
                   [document EXCEPT
                       !.distribution_list =
                           IF "distribution_list" \in payload.update_fields
                           THEN payload.distribution_list ELSE @,
                       !.read_receipts =
                           IF "distribution_list" \in payload.update_fields
                           THEN build_initial_read_receipts(payload.distribution_list)
                           ELSE @,
                       !.approval_matrix =
                           IF "approval_matrix" \in payload.update_fields
                           THEN normalize_approval_stages(payload.approval_matrix)
                           ELSE @]

(***************************************************************************)
(* The life of a document: every operation of the API that writes          *)
(* db.documents, called in any order.  request counts the calls of         *)
(* update_document.  Each operation that can be called is called           *)
(* eventually.                                                             *)
(***************************************************************************)
MaxUpdates == 1

LifeCreatePayloads ==
    {payload \in DocumentCreatePayloads :
        payload.approval_matrix \in {<<>>, <<NewStage(1, <<T_ROLE_QA>>, "any")>>}}

LifeDecisionPayloads ==
    {payload \in DocumentApprovalDecisionPayloads : payload.stage = 1}

LifeReadAcknowledgePayloads ==
    {payload \in DocumentReadAcknowledgePayloads :
        payload.user_id = None /\ payload.note = None}

InitLife ==
    /\ document = NoDocument
    /\ response = 200
    /\ ret = NoCall
    /\ request = [op |-> "none", updates |-> 0]
    /\ inflight = [slot \in Slots |-> Idle]
    /\ db = EmptyDb

NextLife ==
    \/ \E user \in Authors, payload \in LifeCreatePayloads :
           create_document(user, payload) /\ UNCHANGED <<request, inflight, db>>
    \/ \E user \in Authors, payload \in DocumentUpdatePayloads :
           /\ request.updates < MaxUpdates
           /\ update_document(user, payload)
           /\ request' = [op |-> "update_document",
                          updates |-> request.updates + 1]
           /\ UNCHANGED <<inflight, db>>
    \/ \E user \in Authors, payload \in DocumentVersionCreatePayloads :
           add_document_version(user, payload) /\ UNCHANGED <<request, inflight, db>>
    \/ \E user \in Users, payload \in LifeReadAcknowledgePayloads :
           /\ acknowledge_document_read(user, payload)
           /\ UNCHANGED <<request, inflight, db>>
    \/ \E user \in Users, payload \in LifeDecisionPayloads :
           /\ submit_document_approval_decision(user, payload)
           /\ UNCHANGED <<request, inflight, db>>

SpecLife == InitLife /\ [][NextLife]_vars /\ WF_vars(NextLife)

(***************************************************************************)
(* Calibration work orders (db.calibration_work_orders).                   *)
(***************************************************************************)
PLANNED == <<"p", "l", "a", "n", "n", "e", "d">>
IN_PROGRESS == <<"i", "n", "_", "p", "r", "o", "g", "r", "e", "s", "s">>
COMPLETED == <<"c", "o", "m", "p", "l", "e", "t", "e", "d">>
CANCELLED == <<"c", "a", "n", "c", "e", "l", "l", "e", "d">>

CALIBRATION_WORK_ORDER_STATUSES == {PLANNED, IN_PROGRESS, COMPLETED, CANCELLED}

\* A table in which a completed work order can be cancelled.
CALIBRATION_WORK_ORDER_TRANSITIONS_reopening(current_status) ==
    IF current_status = PLANNED THEN {IN_PROGRESS, CANCELLED}
    ELSE IF current_status = IN_PROGRESS THEN {COMPLETED, CANCELLED}
    ELSE IF current_status = COMPLETED THEN {CANCELLED}
    ELSE {}

\* CALIBRATION_WORK_ORDER_TRANSITIONS.get(current_status, set())
CALIBRATION_WORK_ORDER_TRANSITIONS(current_status) ==
    IF current_status = PLANNED THEN {IN_PROGRESS, CANCELLED}
    ELSE IF current_status = IN_PROGRESS THEN {COMPLETED, CANCELLED}
    ELSE {}

\* str(value).strip() or None
_normalize_optional_str(value) ==
    IF value = None THEN None
    ELSE IF Strip(value) = <<>> THEN None ELSE Strip(value)

\* TRUE when _validate_work_order_transition returns without raising.
_validate_work_order_transition(current_status, new_status) ==
    \/ current_status = None
    \/ current_status = new_status
    \/ new_status \in CALIBRATION_WORK_ORDER_TRANSITIONS(current_status)

CalibrationWorkOrderStatusChange(status, changed_by, note) ==
    [status |-> status, changed_by |-> changed_by, note |-> note]

_append_work_order_status_history(status_history, new_status, changed_by, note) ==
    LET normalized_note == _normalize_optional_str(note)
        entry == CalibrationWorkOrderStatusChange(new_status, changed_by,
                                                  normalized_note)
    IN  IF status_history # <<>>
           /\ status_history[Len(status_history)].status = new_status
        THEN IF normalized_note # None
                /\ status_history[Len(status_history)].note # normalized_note
             THEN Append(status_history, entry)
             ELSE status_history
        ELSE Append(status_history, entry)

\* work_order.result
PASS == <<"pass">>
FAIL == <<"fail">>

NOTE_CREATED == <<"c", "r", "e", "a", "t", "e", "d">>
NOTE_MEASURED == <<"m", "e", "a", "s", "u", "r", "e", "d">>
NOTE == <<"n", "o", "t", "e">>
MaxMeasurements == 2

\* CalibrationWorkOrderUpdate: fields names the fields the request sets
\* (payload.dict(exclude_unset=True)); a status may be given in capitals and
\* with whitespace, be no status of a work order, or be blank.
WorkOrderStatusInputs ==
    CALIBRATION_WORK_ORDER_STATUSES
        \cup {<<" ", "C", "o", "m", "p", "l", "e", "t", "e", "d", " ">>, <<"C", "A", "N", "C", "E", "L", "L", "E", "D">>, <<"c", "l", "o", "s", "e", "d">>, <<" ">>}

CalibrationWorkOrderUpdatePayloads ==
    {payload \in [fields : SUBSET {"status", "status_note", "notes"},
                  status : {None} \cup WorkOrderStatusInputs,
                  status_note : {None, NOTE},
                  notes : {None, NOTE}] :
        /\ "status" \notin payload.fields => payload.status = None
        /\ "status" \in payload.fields => payload.status # None
        /\ ("status_note" \in payload.fields) <=> (payload.status_note # None)
        /\ ("notes" \in payload.fields) <=> (payload.notes # None)}

create_calibration_work_order(current_user) ==
    /\ ~db.calibration_work_orders.exists
    /\ db' = [db EXCEPT !.calibration_work_orders =
                  [exists |-> TRUE,
                   status |-> PLANNED,
                   status_history |->
                       _append_work_order_status_history(<<>>, PLANNED,
                           current_user.id, NOTE_CREATED),
                   completed_at |-> None,
                   result |-> None,
                   notes |-> None,
                   measurement_records |-> <<>>]]
    /\ response' = 201
    /\ UNCHANGED <<document, ret, inflight>>

\* The work order after the request, or the status code of the refusal.
updated_work_order(work_order, current_user, payload) ==
    LET with_notes ==
            IF "notes" \in payload.fields
            THEN [work_order EXCEPT !.notes = _normalize_optional_str(payload.notes)]
            ELSE work_order
        raw_status == payload.status
        new_status == Lower(Strip(raw_status))
        status_note == _normalize_optional_str(payload.status_note)
    IN  IF raw_status = None
        THEN [code |-> 200,
              record |->
                  IF status_note # None
                  THEN [with_notes EXCEPT !.status_history =
                            _append_work_order_status_history(@,
                                work_order.status, current_user.id, status_note)]
                  ELSE with_notes]
        ELSE IF Strip(raw_status) = <<>>
                \/ new_status \notin CALIBRATION_WORK_ORDER_STATUSES
                \/ ~_validate_work_order_transition(work_order.status, new_status)
        THEN [code |-> 400, record |-> work_order]
        ELSE LET status_changed == new_status # work_order.status
                 failed == \E i \in DOMAIN work_order.measurement_records :
                               ~work_order.measurement_records[i].pass_status
                 with_status ==
                     [with_notes EXCEPT
                         !.status = new_status,
                         !.completed_at =
                             IF new_status = COMPLETED
                             THEN (IF @ # None THEN @ ELSE Now)
                             ELSE IF status_changed THEN None ELSE @,
                         !.result =
                             IF new_status = COMPLETED /\ @ = None
                             THEN (IF failed THEN FAIL ELSE PASS)
                             ELSE @]
             IN  [code |-> 200,
                  record |->
                      IF status_changed \/ status_note # None
                      THEN [with_status EXCEPT !.status_history =
                                _append_work_order_status_history(@, new_status,
                                    current_user.id, status_note)]
                      ELSE with_status]

update_calibration_work_order(current_user, payload) ==
    /\ UNCHANGED <<document, ret, inflight>>
    /\ IF ~db.calibration_work_orders.exists
       THEN response' = 404 /\ UNCHANGED db
       ELSE LET outcome == updated_work_order(db.calibration_work_orders,
                                              current_user, payload)
            IN  /\ response' = outcome.code
                /\ db' = [db EXCEPT !.calibration_work_orders = outcome.record]

add_work_order_measurement(current_user, pass_status) ==
    /\ UNCHANGED <<document, ret, inflight>>
    /\ IF ~db.calibration_work_orders.exists
       THEN response' = 404 /\ UNCHANGED db
       ELSE /\ Len(db.calibration_work_orders.measurement_records) < MaxMeasurements
            /\ response' = 200
            /\ LET work_order == db.calibration_work_orders
                   records == Append(work_order.measurement_records,
                                     [pass_status |-> pass_status])
                   result ==
                       IF ~pass_status THEN FAIL
                       ELSE IF work_order.result = None
                               /\ \A i \in DOMAIN records : records[i].pass_status
                       THEN PASS
                       ELSE work_order.result
                   started == work_order.status = PLANNED
               IN  db' = [db EXCEPT !.calibration_work_orders =
                              [work_order EXCEPT
                                  !.measurement_records = records,
                                  !.result = result,
                                  !.status = IF started THEN IN_PROGRESS ELSE @,
                                  !.status_history =
                                      IF started
                                      THEN _append_work_order_status_history(@,
                                               IN_PROGRESS, current_user.id,
                                               NOTE_MEASURED)
                                      ELSE @]]

\* The requests on one work order, each noted in request.
NextWorkOrder ==
    \/ \E user \in Authors :
           /\ create_calibration_work_order(user)
           /\ request' = [op |-> "create_calibration_work_order"]
    \/ \E user \in Authors, payload \in CalibrationWorkOrderUpdatePayloads :
           /\ update_calibration_work_order(user, payload)
           /\ request' = [op |-> "update_calibration_work_order",
                          status |-> payload.status]
    \/ \E user \in Authors, pass_status \in BOOLEAN :
           /\ add_work_order_measurement(user, pass_status)
           /\ request' = [op |-> "add_work_order_measurement"]

SpecWorkOrder == Init /\ [][NextWorkOrder]_vars

(***************************************************************************)
(* One `all` stage and its approvers: create_document with a matrix of one *)
(* `all` stage, then decisions of every user in any order.                 *)
(***************************************************************************)
T_USER_U1 == USER_PREFIX \o U1

\* u1 matches both tokens of the first two stages; u2 and u3 match one each.
AllStagePayloads == {
    <<NewStage(1, <<T_ROLE_QA, T_DEPT_LAB>>, "all")>>,
    <<NewStage(1, <<T_ROLE_QA, T_USER_U1>>, "all")>>,
    <<NewStage(1, <<T_USER_U1, T_USER_U2>>, "all")>>,
    <<NewStage(1, <<T_U3, T_DEPT_LAB>>, "all")>>,
    <<NewStage(1, <<T_ROLE_QA, T_DEPT_LAB, T_USER_U2>>, "all")>>
}

CreditCreatePayloads ==
    [distribution_list : DistributionPayloads, approval_matrix : AllStagePayloads]

CreditDecisionPayloads ==
    {payload \in DocumentApprovalDecisionPayloads : payload.stage = 1}

NextCredit ==
    \/ \E user \in Authors, payload \in CreditCreatePayloads :
           create_document(user, payload) /\ UNCHANGED <<request, inflight, db>>
    \/ \E user \in Users, payload \in CreditDecisionPayloads :
           /\ submit_document_approval_decision(user, payload)
           /\ UNCHANGED <<request, inflight, db>>

SpecCredit == Init /\ [][NextCredit]_vars

(***************************************************************************)
(* add_document_version interleaved with decision submissions.  Both       *)
(* handlers await find_one, build their update on the document they read   *)
(* and await update_one; $set replaces the fields it names and $push       *)
(* appends to the stored lists.                                            *)
(***************************************************************************)
ReviseCreatePayloads ==
    [distribution_list : DistributionPayloads,
     approval_matrix : {<<NewStage(1, <<T_ROLE_QA>>, "any")>>,
                        <<NewStage(1, <<T_ROLE_QA, T_DEPT_LAB>>, "all")>>}]

\* set_payload and the $push of add_document_version, built on the document
\* read by find_one.
version_update(document_raw, current_user, payload) ==
    LET new_status == new_status_for(document_raw.approval_matrix) IN
    [version |-> determine_next_version(document_raw.version_history,
                                        payload.mark_as_published),
     version_status |-> version_status_for(document_raw.approval_matrix),
     created_by |-> current_user.id,
     status |-> new_status,
     sets_published_at |-> new_status = "approved",
     sets_approval_matrix |-> document_raw.approval_matrix # <<>>,
     approval_matrix |-> reset_approval_stages(document_raw.approval_matrix)]

\* await db.documents.update_one({"id": document_id}, update_doc); the uuid4
\* id of the new version is fresh, the position it is pushed to is used.
apply_version_update(stored, update) ==
    LET version_record == DocumentVersion(stored.version_history, update.version,
                                          update.created_by, update.version_status)
    IN  [stored EXCEPT
            !.current_version_id = version_record.id,
            !.status = update.status,
            !.version = version_record.version,
            !.published_at = IF update.sets_published_at THEN Now ELSE @,
            !.approval_matrix =
                IF update.sets_approval_matrix THEN update.approval_matrix ELSE @,
            !.version_history = Append(@, version_record),
            !.status_history =
                Append(@, DocumentStatus(update.status, update.created_by))]

\* document = await db.documents.find_one({"id": document_id}); a missing
\* document is refused with 404 before anything is written and is left out.
revise_read(slot, current_user, payload) ==
    /\ inflight[slot].pc \notin {"read", "revise"}
    /\ document.exists
    /\ Len(document.version_history) <= MaxRevisions
    /\ inflight' = [inflight EXCEPT ![slot] =
                        [pc |-> "revise", current_user |-> current_user,
                         payload |-> payload, document_raw |-> document]]
    /\ UNCHANGED <<document, response, ret, request, db>>

revise_write(slot) ==
    /\ inflight[slot].pc = "revise"
    /\ document' =
           apply_version_update(document,
               version_update(inflight[slot].document_raw,
                              inflight[slot].current_user, inflight[slot].payload))
    /\ response' = 200
    /\ inflight' = [inflight EXCEPT ![slot] =
                        [pc |-> "done", current_user |-> inflight[slot].current_user,
                         payload |-> inflight[slot].payload, response |-> 200]]
    /\ UNCHANGED <<ret, request, db>>

NextRevise ==
    \/ \E user \in Authors, payload \in ReviseCreatePayloads :
           /\ ~document.exists
           /\ create_document(user, payload)
           /\ UNCHANGED <<request, inflight, db>>
    \/ \E slot \in Slots, user \in Users, payload \in RaceDecisionPayloads :
           inflight[slot].pc # "revise" /\ race_read(slot, user, payload)
    \/ \E slot \in Slots : race_write(slot)
    \/ \E slot \in Slots, user \in Authors, payload \in DocumentVersionCreatePayloads :
           revise_read(slot, user, payload)
    \/ \E slot \in Slots : revise_write(slot)

SpecRevise == InitRace /\ [][NextRevise]_vars

(***************************************************************************)
(* DOF tasks: create_dof_task, request_dof_closure, decide_dof_closure and *)
(* update_dof_status on one task of db.dof_tasks.  The statuses are        *)
(* compared as they are sent, so they stay plain strings.                  *)
(***************************************************************************)
ALLOWED_DOF_STATUSES == {"open", "in_progress", "pending_closure", "closed", "cancelled"}

MaxDofStatusChanges == 2

DofStatusInputs == ALLOWED_DOF_STATUSES \cup {"Closed", "done"}

DofNotes == {None, NOTE}

DofUsers == {user \in Users : user.id \in {U1, U3}}

DofStatusHistory(status, changed_by, note) ==
    [status |-> status, changed_by |-> changed_by, changed_at |-> Now, note |-> note]

\* task = DofTask(..., status_history=[DofStatusHistory(status="open", ...)])
create_dof_task(current_user) ==
    /\ ~db.dof_tasks.exists
    /\ db' = [db EXCEPT !.dof_tasks =
                  [exists |-> TRUE,
                   status |-> "open",
                   created_by |-> current_user.id,
                   closed_at |-> None,
                   status_history |-> <<DofStatusHistory("open", current_user.id, None)>>,
                   closure_requested_at |-> None,
                   closure_requested_by |-> None,
                   closure_request_note |-> None,
                   closure_approved_at |-> None,
                   closure_approved_by |-> None,
                   closure_decision_note |-> None]]
    /\ response' = 200
    /\ UNCHANGED <<document, ret, inflight>>

\* {"$set": update_doc, "$push": {"status_history": status_entry.dict()}}
push_dof_status(task, status, changed_by, note) ==
    [task EXCEPT !.status = status,
                 !.status_history = Append(@, DofStatusHistory(status, changed_by, note))]

request_dof_closure(current_user, note) ==
    /\ UNCHANGED <<document, ret, inflight>>
    /\ LET task == db.dof_tasks IN
       IF ~task.exists
       THEN response' = 404 /\ UNCHANGED db
       ELSE IF task.status \in {"closed", "cancelled"}
       THEN response' = 400 /\ UNCHANGED db
       ELSE /\ Len(task.status_history) <= MaxDofStatusChanges
            /\ db' = [db EXCEPT !.dof_tasks =
                          [push_dof_status(task, "pending_closure", current_user.id, note)
                              EXCEPT !.closure_requested_at = Now,
                                     !.closure_requested_by = current_user.id,
                                     !.closure_request_note = note,
                                     !.closure_approved_at = None,
                                     !.closure_approved_by = None,
                                     !.closure_decision_note = None]]
            /\ response' = 200

\* if task.get("status") != "pending_closure": raise HTTPException(400)
closure_decision_allowed(task) == task.status = "pending_closure"

decide_dof_closure(current_user, approve, note) ==
    /\ UNCHANGED <<document, ret, inflight>>
    /\ LET task == db.dof_tasks IN
       IF ~task.exists
       THEN response' = 404 /\ UNCHANGED db
       ELSE IF ~closure_decision_allowed(task)
       THEN response' = 400 /\ UNCHANGED db
       ELSE /\ Len(task.status_history) <= MaxDofStatusChanges
            /\ db' = [db EXCEPT !.dof_tasks =
                          IF approve
                          THEN [push_dof_status(task, "closed", current_user.id, note)
                                   EXCEPT !.closed_at = Now,
                                          !.closure_approved_at = Now,
                                          !.closure_approved_by = current_user.id,
                                          !.closure_decision_note = note]
                          ELSE [push_dof_status(task, "in_progress", current_user.id, note)
                                   EXCEPT !.closure_requested_at = None,
                                          !.closure_requested_by = None,
                                          !.closure_request_note = None,
                                          !.closure_approved_at = None,
                                          !.closure_approved_by = None,
                                          !.closure_decision_note = note,
                                          !.closed_at = None]]
            /\ response' = 200

update_dof_status(current_user, status, note) ==
    /\ UNCHANGED <<document, ret, inflight>>
    /\ LET task == db.dof_tasks IN
       IF status \notin ALLOWED_DOF_STATUSES
       THEN response' = 400 /\ UNCHANGED db
       ELSE IF ~task.exists
       THEN response' = 404 /\ UNCHANGED db
       ELSE /\ Len(task.status_history) <= MaxDofStatusChanges
            /\ db' = [db EXCEPT !.dof_tasks =
                          IF status = "pending_closure"
                          THEN [push_dof_status(task, status, current_user.id, note)
                                   EXCEPT !.closure_requested_at = Now,
                                          !.closure_requested_by = current_user.id,
                                          !.closure_request_note = note,
                                          !.closure_approved_at = None,
                                          !.closure_approved_by = None,
                                          !.closure_decision_note = None]
                          ELSE IF status = "closed"
                          THEN [push_dof_status(task, status, current_user.id, note)
                                   EXCEPT !.closed_at = Now,
                                          !.closure_approved_at = Now,
                                          !.closure_approved_by = current_user.id,
                                          !.closure_decision_note = note]
                          ELSE [push_dof_status(task, status, current_user.id, note)
                                   EXCEPT !.closed_at = None,
                                          !.closure_requested_at = None,
                                          !.closure_requested_by = None,
                                          !.closure_request_note = None,
                                          !.closure_approved_at = None,
                                          !.closure_approved_by = None,
                                          !.closure_decision_note = None]]
            /\ response' = 200

NextDof ==
    \/ \E user \in DofUsers :
           /\ create_dof_task(user)
           /\ request' = [op |-> "create_dof_task"]
    \/ \E user \in DofUsers, note \in DofNotes :
           /\ request_dof_closure(user, note)
           /\ request' = [op |-> "request_dof_closure"]
    \/ \E user \in DofUsers, approve \in BOOLEAN, note \in DofNotes :
           /\ decide_dof_closure(user, approve, note)
           /\ request' = [op |-> "decide_dof_closure", approve |-> approve]
    \/ \E user \in DofUsers, status \in DofStatusInputs, note \in DofNotes :
           /\ update_dof_status(user, status, note)
           /\ request' = [op |-> "update_dof_status", status |-> status]

SpecDof == Init /\ [][NextDof]_vars

(***************************************************************************)
(* Document codes of one folder.  create_document awaits the folder        *)
(* (ensure_document_folder), then generate_document_code computes          *)
(* next_seq from the folder it was given and awaits the update of          *)
(* auto_code_seq, then the document is inserted with the code.  Of the     *)
(* inserted documents only the sequence number of the code is kept, in     *)
(* db.document_codes.  request counts the requests started.                *)
(***************************************************************************)
\* DocumentFolder.auto_code_seq: int = 0
create_document_folder ==
    /\ ~db.folders.exists
    /\ db' = [db EXCEPT !.folders = [exists |-> TRUE, auto_code_seq |-> 0]]
    /\ response' = 200
    /\ UNCHANGED <<document, ret, request, inflight>>

\* folder = await ensure_document_folder(payload.folder_id, ...); a missing
\* folder is refused with 404 before anything is written and is left out.
code_read_folder(slot) ==
    /\ inflight[slot].pc \in {"idle", "done"}
    /\ db.folders.exists
    /\ request.started < MaxRequests
    /\ request' = [op |-> "create_document", started |-> request.started + 1]
    /\ inflight' = [inflight EXCEPT ![slot] = [pc |-> "folder", folder |-> db.folders]]
    /\ UNCHANGED <<document, response, ret, db>>

\* next_seq = folder.auto_code_seq + 1
next_seq_of(folder) == folder.auto_code_seq + 1

\* await db.document_folders.update_one({"id": folder.id},
\*     {"$set": {"auto_code_seq": next_seq, ...}})
code_write_seq(slot) ==
    /\ inflight[slot].pc = "folder"
    /\ LET next_seq == next_seq_of(inflight[slot].folder)
       IN  /\ db' = [db EXCEPT !.folders.auto_code_seq = next_seq]
           /\ inflight' = [inflight EXCEPT ![slot] = [pc |-> "code", seq |-> next_seq]]
    /\ UNCHANGED <<document, response, ret, request>>

\* await db.documents.insert_one(document.dict())
code_insert_document(slot) ==
    /\ inflight[slot].pc = "code"
    /\ db' = [db EXCEPT !.document_codes = Append(@, inflight[slot].seq)]
    /\ inflight' = [inflight EXCEPT ![slot] = [pc |-> "done", seq |-> inflight[slot].seq]]
    /\ response' = 200
    /\ UNCHANGED <<document, ret, request>>

NextCode ==
    \/ create_document_folder
    \/ \E slot \in Slots : code_read_folder(slot)
    \/ \E slot \in Slots : code_write_seq(slot)
    \/ \E slot \in Slots : code_insert_document(slot)

SpecCode == InitRace /\ [][NextCode]_vars

(***************************************************************************)
(* Read receipts next to revisions and decisions: create_document,         *)
(* add_document_version, submit_document_approval_decision and             *)
(* acknowledge_document_read, each step noting in request the operation,   *)
(* the authenticated user and the payload.                                 *)
(***************************************************************************)
\* A caller who is not an administrator and one who is.
FrameUsers == {user \in AckUsers : user.id \in {U2, U5}}

FrameReadAcknowledgePayloads ==
    {payload \in DocumentReadAcknowledgePayloads :
        payload.user_id \in {None, U1} /\ payload.note = None}

NextFrame ==
    \/ \E user \in Authors, payload \in LifeCreatePayloads :
           /\ create_document(user, payload)
           /\ request' = [op |-> "create_document", user |-> user]
           /\ UNCHANGED <<inflight, db>>
    \/ \E user \in Authors, payload \in DocumentVersionCreatePayloads :
           /\ add_document_version(user, payload)
           /\ request' = [op |-> "add_document_version", user |-> user]
           /\ UNCHANGED <<inflight, db>>
    \/ \E user \in Users, payload \in LifeDecisionPayloads :
           /\ submit_document_approval_decision(user, payload)
           /\ request' = [op |-> "submit_document_approval_decision", user |-> user]
           /\ UNCHANGED <<inflight, db>>
    \/ \E user \in FrameUsers, payload \in FrameReadAcknowledgePayloads :
           /\ acknowledge_document_read(user, payload)
           /\ request' = [op |-> "acknowledge_document_read", user |-> user,
                          payload |-> payload]
           /\ UNCHANGED <<inflight, db>>

SpecFrame == Init /\ [][NextFrame]_vars

(***************************************************************************)
(* update_document next to the other writers of the document, each step    *)
(* noting in request the operation and, for update_document, the payload.  *)
(***************************************************************************)
NextUpdate ==
    \/ \E user \in Authors, payload \in LifeCreatePayloads :
           /\ create_document(user, payload)
           /\ request' = [op |-> "create_document"]
           /\ UNCHANGED <<inflight, db>>
    \/ \E user \in Authors, payload \in DocumentUpdatePayloads :
           /\ update_document(user, payload)
           /\ request' = [op |-> "update_document", payload |-> payload]
           /\ UNCHANGED <<inflight, db>>
    \/ \E user \in Users, payload \in LifeReadAcknowledgePayloads :
           /\ acknowledge_document_read(user, payload)
           /\ request' = [op |-> "acknowledge_document_read"]
           /\ UNCHANGED <<inflight, db>>
    \/ \E user \in Users, payload \in LifeDecisionPayloads :
           /\ submit_document_approval_decision(user, payload)
           /\ request' = [op |-> "submit_document_approval_decision"]
           /\ UNCHANGED <<inflight, db>>

SpecUpdate == Init /\ [][NextUpdate]_vars

(***************************************************************************)
(* Properties.                                                             *)
(***************************************************************************)
Matrix == document.approval_matrix

PendingIndexes(matrix) == {i \in DOMAIN matrix : matrix[i].status = "pending"}

CurrentVersion(doc) ==
    doc.version_history[CHOOSE i \in DOMAIN doc.version_history :
                            doc.version_history[i].id = doc.current_version_id]

StageIndexes == IF document.exists THEN DOMAIN document.approval_matrix ELSE {}

\* This step stored a new decision on the stage at index i.
DecisionRecordedAt(i) ==
    /\ document.exists
    /\ document'.exists
    /\ i \in DOMAIN document.approval_matrix
    /\ i \in DOMAIN document'.approval_matrix
    /\ Len(document'.approval_matrix[i].decisions)
           = Len(document.approval_matrix[i].decisions) + 1

LastDecision(stage) == stage.decisions[Len(stage.decisions)]

\* This step is a successful add_document_version.
VersionAdded ==
    /\ document.exists
    /\ document'.exists
    /\ Len(document'.version_history) = Len(document.version_history) + 1

\* C1: a document with a non-empty approval matrix has status approved only
\* if every stage of the matrix is approved (none pending, none rejected).
C1_ApprovedOnlyIfAllStagesApproved ==
    (document.exists /\ Matrix # <<>> /\ document.status = "approved")
        => \A i \in DOMAIN Matrix : Matrix[i].status = "approved"

\* C6: find_pending_stage_index returns None exactly when no stage is
\* pending; otherwise the index of a pending stage whose stage number is the
\* least among the pending stages, the first such index on ties.
C6_FindPendingIsFirstMinimalPending ==
    ret.called =>
        LET pending == PendingIndexes(Matrix) IN
        /\ (ret.value = NoIndex) <=> (pending = {})
        /\ ret.value # NoIndex =>
               /\ ret.value \in pending
               /\ \A j \in pending :
                      /\ Matrix[ret.value].stage <= Matrix[j].stage
                      /\ Matrix[j].stage = Matrix[ret.value].stage
                             => ret.value <= j

\* A call that had to skip a decided stage with a lower number and to break
\* a tie between two pending stages.
C6_Witness ==
    /\ ret.called
    /\ ret.value # NoIndex
    /\ \E j \in DOMAIN Matrix :
           /\ j > ret.value
           /\ Matrix[j].status = "pending"
           /\ Matrix[j].stage = Matrix[ret.value].stage
    /\ \E k \in DOMAIN Matrix :
           /\ k < ret.value
           /\ Matrix[k].status # "pending"
           /\ Matrix[k].stage < Matrix[ret.value].stage

\* Normalized approver tokens of a stage.
RequiredTokens(stage) == {_normalize_token(token) : token \in Range(stage.approvers)}

ApprovedDecisions(stage) ==
    {stage.decisions[i] : i \in {j \in DOMAIN stage.decisions :
                                    stage.decisions[j].decision = "approved"}}

\* Normalized matched tokens of the approved decisions of a stage.
MatchedTokens(stage) ==
    {_normalize_token(d.matched_token) :
        d \in {e \in ApprovedDecisions(stage) : e.matched_token # None}}

\* The same, with the user id standing in where a decision has no matched
\* token.
CreditedTokens(stage) ==
    {_normalize_token(IF d.matched_token # None THEN d.matched_token ELSE d.user_id) :
        d \in ApprovedDecisions(stage)}

\* An approved decision was stored on an `all` stage with approvers.
ApprovalRecordedOnAllStage(i) ==
    /\ DecisionRecordedAt(i)
    /\ Matrix[i].approval_type = "all"
    /\ Matrix[i].approvers # <<>>
    /\ LastDecision(document'.approval_matrix[i]).decision = "approved"

StaysPending(i) ==
    /\ document'.approval_matrix[i].status = "pending"
    /\ document'.status = document.status

\* C2 as stated: an approved decision on an `all` stage marks the stage
\* approved iff the normalized matched tokens of its approved decisions
\* contain every normalized approver token; otherwise the stage stays pending
\* and the document status is unchanged.
C2_AllStageCompleteIffMatchedTokensCover ==
    [][\A i \in StageIndexes :
          ApprovalRecordedOnAllStage(i) =>
              LET after == document'.approval_matrix[i] IN
              /\ (after.status = "approved")
                     <=> (RequiredTokens(after) \subseteq MatchedTokens(after))
              /\ after.status # "approved" => StaysPending(i)]_vars

\* C2 amended: the tokens that count are the matched tokens of the approved
\* decisions, or the user id of an approved decision without matched token.
C2_AllStageCompleteIffCreditedTokensCover ==
    [][\A i \in StageIndexes :
          ApprovalRecordedOnAllStage(i) =>
              LET after == document'.approval_matrix[i] IN
              /\ (after.status = "approved")
                     <=> (RequiredTokens(after) \subseteq CreditedTokens(after))
              /\ after.status # "approved" => StaysPending(i)]_vars

\* An `all` stage with two approver tokens, completed by its third approval:
\* the second one was credited to a token already covered and left it pending.
C2_Witness ==
    /\ document.exists
    /\ \E i \in DOMAIN Matrix :
           /\ Matrix[i].approval_type = "all"
           /\ Len(Matrix[i].approvers) = 2
           /\ Matrix[i].status = "approved"
           /\ Len(Matrix[i].decisions) = 3
           /\ Cardinality(MatchedTokens(Matrix[i])) = 2

\* C3: an approved decision recorded on an `any` stage sets the stage to
\* approved, whatever the number of approver tokens.
C3_AnyStageApprovedByFirstApproval ==
    [][\A i \in StageIndexes :
          (/\ DecisionRecordedAt(i)
           /\ Matrix[i].approval_type = "any"
           /\ LastDecision(document'.approval_matrix[i]).decision = "approved")
              => document'.approval_matrix[i].status = "approved"]_vars

\* An `any` stage with two approver tokens, approved by its only decision.
C3_Witness ==
    /\ document.exists
    /\ \E i \in DOMAIN Matrix :
           /\ Matrix[i].approval_type = "any"
           /\ Len(Matrix[i].approvers) = 2
           /\ Matrix[i].status = "approved"
           /\ Len(Matrix[i].decisions) = 1
           /\ Matrix[i].decisions[1].decision = "approved"

\* C4: a rejected decision recorded on the actionable stage sets the stage
\* to rejected, the document to draft and the current version to draft.
C4_RejectionFailsStageAndRevertsToDraft ==
    [][\A i \in StageIndexes :
          (/\ DecisionRecordedAt(i)
           /\ LastDecision(document'.approval_matrix[i]).decision = "rejected")
              => /\ document'.approval_matrix[i].status = "rejected"
                 /\ document'.status = "draft"
                 /\ CurrentVersion(document').status = "draft"]_vars

\* An `all` stage rejected after an approval was recorded on it, and an
\* `any` stage rejected.
C4_Witness ==
    /\ document.exists
    /\ document.status = "draft"
    /\ CurrentVersion(document).status = "draft"
    /\ \E i \in DOMAIN Matrix :
           /\ Matrix[i].approval_type = "all"
           /\ Matrix[i].status = "rejected"
           /\ Len(Matrix[i].decisions) = 2
           /\ Matrix[i].decisions[1].decision = "approved"
           /\ Matrix[i].decisions[2].decision = "rejected"

\* C5: a rejected decision changes only the stage it is recorded on.
C5_RejectionLeavesOtherStagesUntouched ==
    [][\A i \in StageIndexes :
          (/\ DecisionRecordedAt(i)
           /\ LastDecision(document'.approval_matrix[i]).decision = "rejected")
              => /\ Len(document'.approval_matrix) = Len(Matrix)
                 /\ \A j \in DOMAIN Matrix :
                        j # i => document'.approval_matrix[j] = Matrix[j]]_vars

\* A rejected stage next to a stage that holds two decisions of its own.
C5_Witness ==
    /\ document.exists
    /\ \E i, j \in DOMAIN Matrix :
           /\ i # j
           /\ Matrix[i].status = "rejected"
           /\ LastDecision(Matrix[i]).decision = "rejected"
           /\ Matrix[j].status = "approved"
           /\ Len(Matrix[j].decisions) = 2

\* C7: a decision is recorded on a stage only when no stage with a lower
\* stage number is pending.
C7_DecisionsInAscendingStageOrder ==
    [][\A i \in StageIndexes :
          DecisionRecordedAt(i) =>
              /\ Matrix[i].status = "pending"
              /\ \A j \in DOMAIN Matrix :
                     Matrix[j].status = "pending"
                         => Matrix[i].stage <= Matrix[j].stage]_vars

\* After a revision reset the matrix, decisions were recorded on two stages
\* of different numbers, the lower one first.
C7_Witness ==
    /\ document.exists
    /\ \E i, j \in DOMAIN Matrix :
           /\ Matrix[i].stage < Matrix[j].stage
           /\ Matrix[i].status = "approved"
           /\ Matrix[i].decisions # <<>>
           /\ Matrix[j].decisions # <<>>
           /\ Len(document.version_history) > 1

\* C8: add_document_version on a document with a matrix leaves every stage
\* pending, without decisions, decided_by, decided_at and comment, and keeps
\* stage number, approvers, approval_type and deadline.
C8_NewVersionResetsEveryStage ==
    [][(VersionAdded /\ Matrix # <<>>) =>
          /\ Len(document'.approval_matrix) = Len(Matrix)
          /\ \A i \in DOMAIN Matrix :
                 LET before == Matrix[i]
                     after == document'.approval_matrix[i]
                 IN  /\ after.status = "pending"
                     /\ after.decisions = <<>>
                     /\ after.decided_by = None
                     /\ after.decided_at = None
                     /\ after.comment = None
                     /\ after.stage = before.stage
                     /\ after.approvers = before.approvers
                     /\ after.approval_type = before.approval_type
                     /\ after.deadline = before.deadline]_vars

\* A second version whose predecessor was rejected or published, so that
\* stages were decided before the reset; one stage carries a deadline.
C8_Witness ==
    /\ document.exists
    /\ Len(document.version_history) = 2
    /\ document.version_history[1].status \in {"draft", "published"}
    /\ Matrix # <<>>
    /\ \A i \in DOMAIN Matrix :
           Matrix[i].status = "pending" /\ Matrix[i].decisions = <<>>
    /\ \E i \in DOMAIN Matrix : Matrix[i].deadline # None

\* C9: add_document_version sets the document to review and the new version
\* to pending_approval when the matrix is non-empty, else to approved and
\* published, whatever the status before; create_document does the same.
C9_StatusFollowsMatrix ==
    [][/\ VersionAdded =>
              LET added == document'.version_history[Len(document'.version_history)]
              IN  /\ document'.current_version_id = added.id
                  /\ IF Matrix # <<>>
                     THEN document'.status = "review"
                          /\ added.status = "pending_approval"
                     ELSE document'.status = "approved"
                          /\ added.status = "published"
       /\ (~document.exists /\ document'.exists) =>
              IF document'.approval_matrix # <<>>
              THEN document'.status = "review"
                   /\ CurrentVersion(document').status = "pending_approval"
              ELSE document'.status = "approved"
                   /\ CurrentVersion(document').status = "published"]_vars

\* A new version put into review although the document was draft before.
C9_Witness ==
    /\ document.exists
    /\ Len(document.version_history) = 2
    /\ document.version_history[1].status = "draft"
    /\ document.status = "review"
    /\ CurrentVersion(document).status = "pending_approval"
    /\ Len(document.status_history) >= 2
    /\ document.status_history[Len(document.status_history) - 1].status = "draft"

\* C10: when an approved decision completes the actionable stage, the
\* document is in review while a stage is pending, and the next actionable
\* stage is the pending stage with the least stage number, not below the
\* completed one; with no stage pending the document is approved and the
\* current version published.
C10_CompletionAdvancesWorkflow ==
    [][\A i \in StageIndexes :
          (/\ DecisionRecordedAt(i)
           /\ Matrix[i].status = "pending"
           /\ document'.approval_matrix[i].status = "approved")
              => LET after == document'.approval_matrix
                     pending == PendingIndexes(after)
                     next == find_pending_stage_index(after)
                 IN  IF pending # {}
                     THEN /\ document'.status = "review"
                          /\ next \in pending
                          /\ after[next].stage >= Matrix[i].stage
                          /\ \A j \in pending : after[next].stage <= after[j].stage
                     ELSE /\ document'.status = "approved"
                          /\ CurrentVersion(document').status = "published"]_vars

\* The last of two stages completed: document approved, version published.
C10_Witness ==
    /\ document.exists
    /\ Len(Matrix) = 2
    /\ \A i \in DOMAIN Matrix :
           Matrix[i].status = "approved" /\ Matrix[i].decisions # <<>>
    /\ document.status = "approved"
    /\ CurrentVersion(document).status = "published"
    /\ Len(document.status_history) >= 2
    /\ document.status_history[Len(document.status_history) - 1].status = "review"

\* This step is a decision submission (SpecReq notes it in request).
DecisionSubmitted == request'.op = "submit_document_approval_decision"

\* The stage a decision submission acts on: the pending stage with the least
\* stage number, the first of them in the matrix.
ActionableStage(matrix) ==
    LET pending == PendingIndexes(matrix) IN
    IF pending = {} THEN NoIndex
    ELSE CHOOSE i \in pending :
             \A j \in pending :
                 \/ matrix[i].stage < matrix[j].stage
                 \/ matrix[i].stage = matrix[j].stage /\ i <= j

UserIds(decisions) == {decisions[k].user_id : k \in DOMAIN decisions}

MatchesSomeToken(user, stage) ==
    \E token \in Range(stage.approvers) : user_matches_approver(user, token)

\* C11: a decision is recorded on a stage only for a user who matches an
\* approver token of that stage at the time of the request, the recorded
\* matched_token is an approver token of the stage that the user matches,
\* and a user who matches no token of the actionable stage is refused with
\* 403.
C11_DecisionOnlyByMatchingUser ==
    [][DecisionSubmitted =>
         LET user == request'.user IN
         /\ \A i \in StageIndexes :
                DecisionRecordedAt(i) =>
                    LET stage == Matrix[i]
                        recorded == LastDecision(document'.approval_matrix[i])
                    IN  /\ recorded.user_id = user.id
                        /\ MatchesSomeToken(user, stage)
                        /\ recorded.matched_token \in Range(stage.approvers)
                        /\ user_matches_approver(user, recorded.matched_token)
         /\ (/\ document.exists
             /\ Matrix # <<>>
             /\ ActionableStage(Matrix) # NoIndex
             /\ ~MatchesSomeToken(user, Matrix[ActionableStage(Matrix)]))
                => response' = 403 /\ document' = document]_vars

\* A user matched through the whitespace-padded token " U3" has a decision
\* on record with that token, and the last request, by a user who matches no
\* token of the actionable stage, was refused.
C11_Witness ==
    /\ document.exists
    /\ \E i \in DOMAIN Matrix :
           \E k \in DOMAIN Matrix[i].decisions :
               /\ Matrix[i].decisions[k].user_id = U3
               /\ Matrix[i].decisions[k].matched_token = T_U3
    /\ request.op = "submit_document_approval_decision"
    /\ ActionableStage(Matrix) # NoIndex
    /\ ~MatchesSomeToken(request.user, Matrix[ActionableStage(Matrix)])
    /\ response = 403

(***************************************************************************)
(* Approver matching (SpecMatch).                                          *)
(***************************************************************************)
\* The token has the form prefix:X once trimmed and lowered.
HasForm(approver_token, prefix) ==
    StartsWith(_normalize_token(approver_token), prefix)

\* The normalized X of a token of the form prefix:X.
NormalizedValue(approver_token, prefix) ==
    LET token == _normalize_token(approver_token) IN
    _normalize_token(SubSeq(token, Len(prefix) + 1, Len(token)))

NormalizedRoles(user) ==
    {_normalize_token(user.role)}
        \cup {_normalize_token(role) : role \in Range(user.roles)}

NormalizedGroups(user) ==
    {_normalize_token(group) : group \in Range(user.groups)}

NormalizedIdentity(user) ==
    {_normalize_token(user.id), _normalize_token(user.username),
     _normalize_token(user.email)}

\* C12: for a token role:X, user_matches_approver is true if and only if the
\* normalized X is the user's normalized primary role or a normalized entry
\* of the roles list; no other field of the user plays a part.
C12_RoleTokenMatchesRoleSet ==
    (ret.called /\ HasForm(request.approver_token, ROLE_PREFIX)) =>
        (ret.value <=>
            NormalizedValue(request.approver_token, ROLE_PREFIX)
                \in NormalizedRoles(request.user))

\* C13: for a token user:<id>, user_matches_approver is true if and only if
\* the normalized <id> is the user's normalized id, username or email; a
\* value that is only the user's role, department or group does not match.
C13_UserTokenMatchesIdentityOnly ==
    (ret.called /\ HasForm(request.approver_token, USER_PREFIX)) =>
        (ret.value <=>
            NormalizedValue(request.approver_token, USER_PREFIX)
                \in NormalizedIdentity(request.user))

IsBareToken(approver_token) ==
    /\ approver_token # <<>>
    /\ \A prefix \in {ROLE_PREFIX, DEPARTMENT_PREFIX, GROUP_PREFIX, USER_PREFIX} :
           ~HasForm(approver_token, prefix)

\* C14 as stated: for a non-empty token without a recognised prefix,
\* user_matches_approver is true if and only if the normalized token is the
\* user's normalized id, username, email, role, department or a group.
C14_BareTokenMatchesListedFields ==
    (ret.called /\ IsBareToken(request.approver_token)) =>
        (ret.value <=>
            _normalize_token(request.approver_token)
                \in NormalizedIdentity(request.user)
                        \cup {_normalize_token(request.user.role),
                              _normalize_token(request.user.department)}
                        \cup NormalizedGroups(request.user))

\* C14: for a non-empty token without a recognised prefix,
\* user_matches_approver is true if and only if the normalized token is the
\* user's normalized id, username, email, primary role, an entry of the
\* roles list, department or a group.
C14_BareTokenMatchesIdentifierFields ==
    (ret.called /\ IsBareToken(request.approver_token)) =>
        (ret.value <=>
            _normalize_token(request.approver_token)
                \in NormalizedIdentity(request.user)
                        \cup NormalizedRoles(request.user)
                        \cup {_normalize_token(request.user.department)}
                        \cup NormalizedGroups(request.user))

\* A bare token matched a user through an entry of the roles list that is
\* not the primary role, and another through a group.
C14_Witness ==
    /\ ret.called
    /\ IsBareToken(request.approver_token)
    /\ ret.value
    /\ _normalize_token(request.approver_token)
           \in {_normalize_token(role) : role \in Range(request.user.roles)}
    /\ _normalize_token(request.approver_token)
           \notin NormalizedIdentity(request.user)
                      \cup {_normalize_token(request.user.role),
                            _normalize_token(request.user.department)}
                      \cup NormalizedGroups(request.user)

UpperChar(ch) ==
    IF \E i \in DOMAIN LowerChars : LowerChars[i] = ch
    THEN UpperChars[CHOOSE i \in DOMAIN LowerChars : LowerChars[i] = ch]
    ELSE ch

Upper(s) == [i \in DOMAIN s |-> UpperChar(s[i])]

Pad(s) == <<" ">> \o s \o <<"\t">>

\* The value part after the prefix of a prefixed token, padded.
PadValue(approver_token) ==
    IF \E prefix \in {ROLE_PREFIX, DEPARTMENT_PREFIX, GROUP_PREFIX, USER_PREFIX} :
           HasForm(approver_token, prefix)
    THEN LET colon == CHOOSE i \in DOMAIN approver_token :
                          /\ approver_token[i] = ":"
                          /\ \A j \in 1..(i - 1) : approver_token[j] # ":"
         IN  SubSeq(approver_token, 1, colon)
                 \o Pad(SubSeq(approver_token, colon + 1, Len(approver_token)))
    ELSE approver_token

\* The same token, altered in letter case or surrounding whitespace.
TokenVariants(approver_token) ==
    {approver_token, Upper(approver_token), Lower(approver_token),
     Pad(approver_token), PadValue(approver_token)}

\* The same user, every compared field altered in letter case or
\* surrounding whitespace.
UserVariants(user) ==
    {user,
     [user EXCEPT !.id = Pad(Upper(@)), !.username = Pad(Upper(@)),
                  !.email = Pad(Upper(@)), !.role = Pad(Upper(@)),
                  !.department = Pad(Upper(@)),
                  !.roles = [i \in DOMAIN @ |-> Pad(Upper(@[i]))],
                  !.groups = [i \in DOMAIN @ |-> Pad(Upper(@[i]))]]}

\* C15: the result of user_matches_approver does not change when the token,
\* the value part after a role:/department:/group:/user: prefix, or a user
\* field is altered only in letter case or leading/trailing whitespace.
C15_MatchingIgnoresCaseAndPadding ==
    ret.called =>
        \A approver_token \in TokenVariants(request.approver_token),
           user \in UserVariants(request.user) :
            user_matches_approver(user, approver_token) = ret.value

\* C17: every refused decision submission leaves the stored document
\* unchanged: unknown document (404), empty approval matrix (400), no
\* pending stage (400), user matching no approver token of the actionable
\* stage (403), user who already decided on the actionable stage (400).
C17_RefusalLeavesDocumentUnchanged ==
    [][DecisionSubmitted =>
         LET user == request'.user
             acted == ActionableStage(Matrix)
         IN  /\ ~document.exists => response' = 404 /\ document' = document
             /\ document.exists =>
                    /\ Matrix = <<>> => response' = 400 /\ document' = document
                    /\ (Matrix # <<>> /\ acted = NoIndex)
                           => response' = 400 /\ document' = document
                    /\ (acted # NoIndex /\ ~MatchesSomeToken(user, Matrix[acted]))
                           => response' = 403 /\ document' = document
                    /\ (/\ acted # NoIndex
                        /\ MatchesSomeToken(user, Matrix[acted])
                        /\ user.id \in UserIds(Matrix[acted].decisions))
                           => response' = 400 /\ document' = document
             /\ response' # 200 => document' = document]_vars

\* A user whose decision was recorded on the pending stage submitted again
\* and was refused with 400.
C17_Witness ==
    /\ document.exists
    /\ request.op = "submit_document_approval_decision"
    /\ response = 400
    /\ ActionableStage(Matrix) # NoIndex
    /\ MatchesSomeToken(request.user, Matrix[ActionableStage(Matrix)])
    /\ \E k \in DOMAIN Matrix[ActionableStage(Matrix)].decisions :
           LET decision == Matrix[ActionableStage(Matrix)].decisions[k] IN
           /\ decision.user_id = request.user.id
           /\ decision.matched_token # None

(***************************************************************************)
(* Interleaved submissions (SpecRace).                                     *)
(***************************************************************************)
\* This step is the write of the request in the slot, answered with 200.
AcceptedWrite(slot) ==
    /\ inflight[slot].pc = "read"
    /\ inflight'[slot].pc = "done"
    /\ inflight'[slot].response = 200

\* The stored matrix holds no decision of the user.
DecisionAbsent(user_id) ==
    \A i \in DOMAIN Matrix : user_id \notin UserIds(Matrix[i].decisions)

\* C16: the write of an accepted submission replaces the whole approval
\* matrix by the one the request read plus its own decision on the stage
\* that was actionable when it read, whatever was stored in between; so of
\* two submissions that both read before either writes, the decision of the
\* first writer is lost although it was answered with success.
C16_WriteReplacesMatrixFromSnapshot ==
    [][\A slot \in Slots :
           AcceptedWrite(slot) =>
               LET read == inflight[slot].document_raw.approval_matrix
                   acted == ActionableStage(read)
                   written == document'.approval_matrix
               IN  /\ DOMAIN written = DOMAIN read
                   /\ \A i \in DOMAIN read :
                          /\ i # acted => written[i] = read[i]
                          /\ i = acted =>
                                 /\ Len(written[i].decisions)
                                        = Len(read[i].decisions) + 1
                                 /\ SubSeq(written[i].decisions, 1,
                                           Len(read[i].decisions))
                                        = read[i].decisions
                                 /\ LastDecision(written[i]).user_id
                                        = inflight[slot].current_user.id]_vars

\* Two submissions by different users were both answered with 200 and the
\* stored matrix holds the decision of one of them only: a lost update.
C16_Witness ==
    /\ document.exists
    /\ \A slot \in Slots : inflight[slot].pc = "done" /\ inflight[slot].response = 200
    /\ inflight["a"].current_user.id # inflight["b"].current_user.id
    /\ request.started = 2
    /\ DecisionAbsent(inflight["a"].current_user.id)
    /\ ~DecisionAbsent(inflight["b"].current_user.id)

NoDuplicateDecisions(doc) ==
    doc.exists =>
        \A i \in DOMAIN doc.approval_matrix :
            LET decisions == doc.approval_matrix[i].decisions IN
            \A k, l \in DOMAIN decisions :
                decisions[k].user_id = decisions[l].user_id => k = l

StoredDecisions(user_id) ==
    {pos \in UNION {{<<i, k>> : k \in DOMAIN Matrix[i].decisions} :
                        i \in DOMAIN Matrix} :
        Matrix[pos[1]].decisions[pos[2]].user_id = user_id}

UserEntries(doc) ==
    {entry \in Range(doc.distribution_list) : entry.principal_type = "user"}

EntriesHaveReceipts(doc) ==
    \A entry \in UserEntries(doc) :
        \E receipt \in Range(doc.read_receipts) :
            /\ receipt.user_id = entry.principal_id
            /\ receipt.required = entry.required_to_read

\* C19: in every state reached through create_document and
\* acknowledge_document_read, each read receipt's user_id is the
\* principal_id of a user-type entry of the distribution list, and each such
\* entry has a receipt whose required flag equals its required_to_read.
C19_ReceiptsTiedToDistributionEntries ==
    document.exists =>
        /\ \A receipt \in Range(document.read_receipts) :
               \E entry \in UserEntries(document) :
                   receipt.user_id = entry.principal_id
        /\ EntriesHaveReceipts(document)

(***************************************************************************)
(* Document lifecycle (SpecLife).                                          *)
(***************************************************************************)
FinalStatuses == {"archived", "retired"}

\* The statuses the operations of the API give a document.
StatusIsDraftReviewOrApproved ==
    document.exists => document.status \in {"draft", "review", "approved"}

\* C18: the operations of the API take an approved document on to status
\* archived or retired.
C18_ApprovedLeadsToArchivedOrRetired ==
    (document.exists /\ document.status = "approved")
        ~> (document.exists /\ document.status \in FinalStatuses)

(***************************************************************************)
(* Calibration work orders (SpecWorkOrder).                                *)
(***************************************************************************)
WorkOrder == db.calibration_work_orders

TerminalWorkOrderStatuses == {COMPLETED, CANCELLED}

AcceptedWorkOrderChanges ==
    {<<PLANNED, IN_PROGRESS>>, <<PLANNED, CANCELLED>>,
     <<IN_PROGRESS, COMPLETED>>, <<IN_PROGRESS, CANCELLED>>}

\* This step is an update_calibration_work_order that asks for a status.
StatusRequested ==
    /\ request'.op = "update_calibration_work_order"
    /\ request'.status # None

\* C21: completed and cancelled are terminal for calibration work orders:
\* once a work order has one of them, update_calibration_work_order refuses
\* every request for a different status with 400 and persists nothing, and
\* the status of a work order changes only from planned to in_progress or
\* cancelled and from in_progress to completed or cancelled.
C21_CompletedAndCancelledAreTerminal ==
    [][/\ (/\ StatusRequested
           /\ WorkOrder.exists
           /\ WorkOrder.status \in TerminalWorkOrderStatuses
           /\ Lower(Strip(request'.status)) # WorkOrder.status)
              => response' = 400 /\ db' = db
       /\ (/\ WorkOrder.exists
           /\ WorkOrder'.status # WorkOrder.status)
              => <<WorkOrder.status, WorkOrder'.status>>
                     \in AcceptedWorkOrderChanges]_vars

\* A completed work order with measurements was asked to become cancelled
\* and the request was refused.
C21_Witness ==
    /\ WorkOrder.exists
    /\ WorkOrder.status = COMPLETED
    /\ WorkOrder.measurement_records # <<>>
    /\ request.op = "update_calibration_work_order"
    /\ request.status # None
    /\ Lower(Strip(request.status)) = CANCELLED
    /\ response = 400

(***************************************************************************)
(* Completion of an `all` stage (SpecCredit).                              *)
(***************************************************************************)
UserById(user_id) == CHOOSE user \in Users : user.id = user_id

\* Every approver token of the stage has an approved decision of a user
\* who matches it, and the stage holds no rejection.
EveryTokenApproved(stage) ==
    /\ stage.approval_type = "all"
    /\ stage.approvers # <<>>
    /\ \A k \in DOMAIN stage.decisions : stage.decisions[k].decision = "approved"
    /\ \A token \in Range(stage.approvers) :
           \E k \in DOMAIN stage.decisions :
               user_matches_approver(UserById(stage.decisions[k].user_id), token)

\* Every user who matches a token of the stage has a decision on it: no
\* further decision can be recorded on the stage.
EveryMatchingUserDecided(stage) ==
    \A user \in Users :
        MatchesSomeToken(user, stage) => user.id \in UserIds(stage.decisions)

\* C22: in an `all` stage, when every required approver token has an
\* approved decision of a user matching it and nobody has rejected, the
\* stage becomes approved, also when one user matches several tokens: at
\* the latest when every user who can decide on the stage has approved.
C22_AllStageCompletesWhenEveryTokenApproved ==
    (/\ document.exists
     /\ EveryTokenApproved(Matrix[1])
     /\ EveryMatchingUserDecided(Matrix[1]))
        => Matrix[1].status = "approved"

\* C23: a document in status `review` has at least one pending stage in its
\* approval matrix, after create_document with any accepted payload and
\* after every later add_document_version and decision.
C23_ReviewHasPendingStage ==
    (document.exists /\ document.status = "review")
        => PendingIndexes(Matrix) # {}

\* C24: under sequential requests the document status is `approved` if and
\* only if the version_history entry whose id equals current_version_id has
\* status `published`.
C24_ApprovedIffCurrentVersionPublished ==
    document.exists =>
        /\ \E i \in DOMAIN document.version_history :
               document.version_history[i].id = document.current_version_id
        /\ document.status = "approved"
               <=> CurrentVersion(document).status = "published"

\* A second version published by the last approving decision.
C24_Witness ==
    /\ document.exists
    /\ Matrix # <<>>
    /\ \A i \in DOMAIN Matrix : Matrix[i].decisions # <<>>
    /\ document.status = "approved"
    /\ document.current_version_id = 2
    /\ CurrentVersion(document).status = "published"
    /\ document.version_history[1].status # "published"

\* C25: current_version_id always refers to an entry of version_history,
\* under every interleaving of add_document_version with decision
\* submissions on the same document.
C25_CurrentVersionIsInHistory ==
    document.exists =>
        \E i \in DOMAIN document.version_history :
            document.version_history[i].id = document.current_version_id

\* C26: the document status always equals the status of the last entry of
\* status_history, for every interleaving of create_document,
\* add_document_version and decision submissions on the same document.
C26_StatusIsLastStatusHistoryEntry ==
    document.exists =>
        /\ document.status_history # <<>>
        /\ document.status_history[Len(document.status_history)].status
               = document.status

DofTask == db.dof_tasks

\* C27: a DOF task becomes `closed` only through an approving
\* decide_dof_closure taken while the status is `pending_closure`;
\* request_dof_closure is refused with 400 for tasks that are `closed` or
\* `cancelled`, and decide_dof_closure is refused with 400 in every status
\* other than `pending_closure`.
C27_ClosedOnlyThroughApprovedClosure ==
    [][/\ (DofTask.exists /\ DofTask'.status = "closed" /\ DofTask' # DofTask)
              => /\ request'.op = "decide_dof_closure"
                 /\ request'.approve
                 /\ DofTask.status = "pending_closure"
       /\ (request'.op = "request_dof_closure" /\ DofTask.exists
              /\ DofTask.status \in {"closed", "cancelled"})
              => (response' = 400 /\ db' = db)
       /\ (request'.op = "decide_dof_closure" /\ DofTask.exists
              /\ DofTask.status # "pending_closure")
              => (response' = 400 /\ db' = db)]_vars

\* C28: the documents created in one folder have distinct auto-code
\* sequence numbers, and once no create_document request is running the
\* folder's auto_code_seq equals the number of documents created in it,
\* also when create_document requests for the folder interleave.
C28_DistinctCodesAndSeqCountsDocuments ==
    LET codes == db.document_codes IN
    /\ \A i, j \in DOMAIN codes : i # j => codes[i] # codes[j]
    /\ (db.folders.exists /\ \A slot \in Slots : inflight[slot].pc \in {"idle", "done"})
           => db.folders.auto_code_seq = Len(codes)

\* The user whose receipt an acknowledgement is for: the caller, or the
\* user_id of the payload when the caller is an administrator.
AcknowledgedUserId ==
    IF user_is_admin(request'.user) /\ Truthy(request'.payload.user_id)
    THEN request'.payload.user_id
    ELSE request'.user.id

\* Every receipt kept as it is but those of user_id, and nothing added but
\* one receipt of user_id.
OnlyReceiptsOfChange(user_id) ==
    LET before == document.read_receipts
        after == document'.read_receipts
    IN  /\ Len(after) \in {Len(before), Len(before) + 1}
        /\ \A i \in DOMAIN before : before[i].user_id # user_id => after[i] = before[i]
        /\ \A i \in DOMAIN after : i \notin DOMAIN before => after[i].user_id = user_id

\* C29: add_document_version and submit_document_approval_decision leave
\* read_receipts and distribution_list unchanged, so a receipt that is
\* `read` stays `read`; acknowledge_document_read changes only the receipts
\* of one user, who is the caller whenever the caller is not an
\* administrator, whatever user_id the payload carries.
C29_RevisionAndDecisionKeepReceipts ==
    [][document.exists =>
          /\ request'.op \in {"add_document_version",
                              "submit_document_approval_decision"}
                 => /\ document'.read_receipts = document.read_receipts
                    /\ document'.distribution_list = document.distribution_list
          /\ request'.op = "acknowledge_document_read"
                 => /\ document'.distribution_list = document.distribution_list
                    /\ OnlyReceiptsOfChange(AcknowledgedUserId)
                    /\ ~user_is_admin(request'.user)
                           => OnlyReceiptsOfChange(request'.user.id)]_vars

\* A second version published by a decision while a receipt is read.
C29_Witness ==
    /\ request.op = "submit_document_approval_decision"
    /\ response = 200
    /\ document.exists
    /\ document.status = "approved"
    /\ document.current_version_id = 2
    /\ \E i \in DOMAIN document.read_receipts :
           document.read_receipts[i].status = "read"
    /\ \E i \in DOMAIN document.read_receipts :
           document.read_receipts[i].status = "pending"

IsUserEntry(entry) == entry.principal_type = "user"

\* C30: update_document with an approval_matrix in the payload succeeds and
\* replaces the stored matrix by the supplied stages sorted by ascending
\* stage number, leaving the document status and status_history unchanged;
\* with a distribution_list in the payload it succeeds and rebuilds
\* read_receipts as one pending receipt per `user`-type entry.
C30_UpdateReplacesMatrixAndReceipts ==
    [][(request'.op = "update_document" /\ document.exists) =>
          LET payload == request'.payload IN
          /\ "approval_matrix" \in payload.update_fields
                 => /\ response' = 200
                    /\ document'.approval_matrix = SortByStage(payload.approval_matrix)
                    /\ document'.status = document.status
                    /\ document'.status_history = document.status_history
          /\ "distribution_list" \in payload.update_fields
                 => /\ response' = 200
                    /\ LET entries == SelectSeq(payload.distribution_list, IsUserEntry)
                           receipts == document'.read_receipts
                       IN  /\ Len(receipts) = Len(entries)
                           /\ \A i \in DOMAIN receipts :
                                  /\ receipts[i].user_id = entries[i].principal_id
                                  /\ receipts[i].status = "pending"]_vars

====
